---- MODULE Spec2Model ----
(***************************************************************************)
(* A model of the peer side of a BitTorrent client: the block layout of a  *)
(* piece (peer.rs, calculate_block_length), the handshake record           *)
(* (peer.rs, HandShake), the peer messages and their framing (PeerMessage, *)
(* send_message, receive_message), the bootstrap of a download             *)
(* (initiate_download), the block by block download of one piece           *)
(* (download_piece, download_block) and the check of a piece               *)
(* (validate_piece); and of the parts around it: the compact peer list    *)
(* and the announce request (tracker.rs), the metainfo file (torrent.rs),  *)
(* the info hash, its URL encoding and the JSON view of a decoded value    *)
(* (main.rs).                                                              *)
(*                                                                         *)
(* The specifications of the module:                                       *)
(*   SpecLayout          calculate_block_length as a pure function         *)
(*   SpecHandshake       the parsing of a 68-byte handshake reply          *)
(*   SpecHandshakeBuild  a handshake built, serialized and parsed back     *)
(*   SpecCodec           a message encoded and decoded; send_message       *)
(*   SpecReceive         receive_message on the bytes of a stream          *)
(*   SpecValidate        validate_piece as a pure function                 *)
(*   Spec                one connection: handshake, bootstrap, one piece   *)
(*   SpecLive            Spec with a peer that answers every request       *)
(*   SpecPeers           a compact peer list parsed and serialized         *)
(*   SpecMetainfo        the info dictionary of a metainfo file parsed     *)
(*   SpecTracker         an announce request built and its fields set      *)
(*   SpecUrlEncode       url_encode_infohash as a pure function            *)
(*   SpecInfoHash        the info hash of two metainfo files               *)
(*   SpecJson            bencode_to_json as a pure function                *)
(***************************************************************************)
EXTENDS Integers, Sequences, FiniteSets, TLC

VARIABLES
    args,        \* [torrent, piece_index, block_size, debug]: the arguments of
                 \* download_piece / calculate_block_length and the kind of
                 \* build (debug: debug assertions are compiled in)
    layout,      \* the result of calculate_block_length
    hs_args,     \* [info_hash, peer_id]: the arguments a handshake is built from
    hs_in,       \* the 68 bytes of a handshake: read back from the peer, or
                 \* the serialization of the handshake built from hs_args
    hs_out,      \* the result of converting them to a HandShake
    pc,          \* the position of the client on the connection
    rx,          \* the frame whose length prefix has been read, its body not yet
    log,         \* what went over the connection, in order: [dir, msg]
    piece,       \* download_piece: the piece buffer
    blk,         \* download_piece: the index of the block in progress
    init_result, \* how initiate_download ended: "none", "ok", "err", "panic"
    dp_result,   \* how download_piece ended: "none", "ok", "err", "panic"
    message,     \* the PeerMessage given to send_message / to the conversions
    send_out,    \* the result of send_message and the bytes it put on the
                 \* connection: [status, wire]
    decoded,     \* the result of converting the encoding of message back
    stream,      \* the bytes a peer sends before it closes the connection
    consumed,    \* how many bytes of stream have been read
    received,    \* the results of the receive_message calls on stream, in order
    vp_args,     \* [pieces, piece_index, data]: the arguments of validate_piece
    vp_result,   \* the result of validate_piece
    fn_args,     \* the input of the function a specification applies
    fn_result    \* what the function has returned so far

vars == <<args, layout, hs_args, hs_in, hs_out, pc, rx, log, piece, blk,
          init_result, dp_result, message, send_out, decoded, stream, consumed,
          received, vp_args, vp_result, fn_args, fn_result>>

layout_vars == <<args, layout>>
hs_vars == <<hs_args, hs_in, hs_out>>
conn_vars == <<pc, rx, log, piece, blk, init_result, dp_result>>
wire_vars == <<message, send_out, decoded, stream, consumed, received>>
vp_vars == <<vp_args, vp_result>>
fn_vars == <<fn_args, fn_result>>

(***************************************************************************)
(* Bounds of the model.                                                    *)
(***************************************************************************)
\* piece and block lengths 1..MaxSmallLen are enumerated exhaustively
MaxSmallLen == 6
\* a torrent of the layout specification has 1..MaxPieces pieces
MaxPieces == 3
\* the number of distinct 20-byte identifiers (digests, peer ids) sampled
MaxSample == 2
\* Spec: the piece length of the torrent
MaxPieceLen == 4
\* Spec: block sizes are 2..MaxBlockSize
MaxBlockSize == 3
\* the Bitfield and Piece messages encoded carry 0..MaxPayload bytes
MaxPayload == 2
\* a peer sends up to MaxFrames frames before it closes the connection
MaxFrames == 2

\* the value of a result that has not been computed yet
None == [status |-> "none"]

(***************************************************************************)
(* Numbers.                                                                *)
(***************************************************************************)
\* the number of significand bits of an f32 (peer.rs:354 converts to f32)
F32Digits == 24

RECURSIVE Log2(_)
\* floor(log2 x) for x >= 1
Log2(x) == IF x < 2 THEN 0 ELSE 1 + Log2(x \div 2)

\* `x as f32` for an unsigned integer x: the nearest value with F32Digits
\* significant bits, ties to the even significand
ToF32(x) ==
    IF x < 2^F32Digits THEN x
    ELSE LET u    == 2^(Log2(x) - (F32Digits - 1))
             lo   == x % u
             base == x - lo
         IN  IF 2 * lo < u THEN base
             ELSE IF 2 * lo > u THEN base + u
             ELSE IF (base \div u) % 2 = 0 THEN base ELSE base + u

\* f32::ceil(a / b) as u32, for f32 values a, b that are integers, b >= 1:
\* the IEEE quotient is the exact quotient rounded to F32Digits bits (ties to
\* even), and the ceiling is taken of the rounded quotient
F32CeilDiv(a, b) ==
    LET q == a \div b
        r == a % b
        k == Log2(q)
    IN  IF r = 0 THEN q
        ELSE IF q = 0 THEN 1
        ELSE IF k < F32Digits - 1
             \* spacing 2^(k-23) < 1: the quotient rounds down to q exactly
             \* when r/b is at most half the spacing (a tie keeps q: its
             \* significand is even)
             THEN IF r <= b \div 2^(F32Digits - k) THEN q ELSE q + 1
        ELSE LET u    == 2^(k - (F32Digits - 1))
                 lo   == q % u
                 base == q - lo
             IN  IF u = 1
                 THEN IF 2 * r < b THEN q
                      ELSE IF 2 * r > b THEN q + 1
                      ELSE IF q % 2 = 0 THEN q ELSE q + 1
                 ELSE IF 2 * lo < u THEN base ELSE base + u

RECURSIVE SumSeq(_)
SumSeq(s) == IF s = <<>> THEN 0 ELSE Head(s) + SumSeq(Tail(s))

(***************************************************************************)
(* torrent.rs: the metainfo.  A torrent is                                 *)
(*   [piece_length, piece_count, content]                                  *)
(* where piece_count is the number of digests in info.pieces and content   *)
(* is [kind |-> "SingleFile", length] or [kind |-> "MultiFile", files],    *)
(* files being the sequence of the files' lengths.                         *)
(***************************************************************************)
\* a faulty variant of content_length: of several files only the first counts
content_length_FirstFile(torrent) ==
    IF torrent.content.kind = "SingleFile"
    THEN torrent.content.length
    ELSE torrent.content.files[1]

\* Torrent::content_length
content_length(torrent) ==
    IF torrent.content.kind = "SingleFile"
    THEN torrent.content.length
    ELSE SumSeq(torrent.content.files)

(***************************************************************************)
(* peer.rs: calculate_block_length.  The result is                         *)
(*   [status, piece_length, block_count, last_block_length]                *)
(* with status "ok" (the triple is returned) or "panic" (the debug         *)
(* assertion of the function fails; only in a build with debug             *)
(* assertions).                                                            *)
(***************************************************************************)
calculate_block_length(torrent, piece_index, block_size, debug) ==
    LET piece_count  == torrent.piece_count
        piece_length ==
            IF piece_index = piece_count - 1
            THEN content_length(torrent) - torrent.piece_length * (piece_count - 1)
            ELSE torrent.piece_length
        block_count  == F32CeilDiv(ToF32(piece_length), ToF32(block_size))
        remainder    == piece_length % block_size
        last_block_length == IF remainder = 0 THEN block_size ELSE remainder
        block_size_sum == (block_count - 1) * block_size + last_block_length
    IN  [status |-> IF debug /\ block_size_sum # piece_length THEN "panic" ELSE "ok",
         piece_length |-> piece_length,
         block_count |-> block_count,
         last_block_length |-> last_block_length]

(***************************************************************************)
(* peer.rs: the handshake.  Bytes are numbers in 0..255, a byte array is a *)
(* sequence (position 1 of the sequence is byte 0 of the array).           *)
(***************************************************************************)
\* b"BitTorrent protocol"
Protocol ==
    <<66, 105, 116, 84, 111, 114, 114, 101, 110, 116, 32,
      112, 114, 111, 116, 111, 99, 111, 108>>

Zeros(n) == [i \in 1..n |-> 0]

\* b"00112233445566778899", the peer id HandShake::new puts in
DefaultPeerId == [i \in 1..20 |-> 48 + ((i - 1) \div 2)]

\* HandShake::new(info_hash)
HandShake_new(info_hash) ==
    [length |-> 19, protocol |-> Protocol, reserved |-> Zeros(8),
     info_hash |-> info_hash, peer_id |-> DefaultPeerId]

\* HandShake::peer_id(self, peer_id)
HandShake_peer_id(self, peer_id) == [self EXCEPT !.peer_id = peer_id]

\* a faulty variant of the serialization below: the peer identifier is put
\* before the content identifier
HandShake_into_bytes_Swapped(value) ==
    <<value.length>> \o value.protocol \o value.reserved
        \o value.peer_id \o value.info_hash

\* From<HandShake> for [u8; 68]
HandShake_into_bytes(value) ==
    <<value.length>> \o value.protocol \o value.reserved
        \o value.info_hash \o value.peer_id

\* a faulty variant of the conversion below: the protocol literal is not
\* compared
HandShake_try_from_NoProtocolCheck(value) ==
    IF value[1] # 19
    THEN [status |-> "InvalidLength", length |-> value[1]]
    ELSE [status |-> "ok", length |-> 19, protocol |-> Protocol,
          reserved |-> SubSeq(value, 21, 28),
          info_hash |-> SubSeq(value, 29, 48),
          peer_id |-> SubSeq(value, 49, 68)]

\* TryFrom<[u8; 68]> for HandShake
HandShake_try_from(value) ==
    IF value[1] # 19
    THEN [status |-> "InvalidLength", length |-> value[1]]
    ELSE IF SubSeq(value, 2, 20) # Protocol
    THEN [status |-> "InvalidProtocol", protocol |-> SubSeq(value, 2, 20)]
    ELSE [status |-> "ok", length |-> 19, protocol |-> Protocol,
          reserved |-> SubSeq(value, 21, 28),
          info_hash |-> SubSeq(value, 29, 48),
          peer_id |-> SubSeq(value, 49, 68)]

(***************************************************************************)
(* SpecHandshake: the conversion of a 68-byte reply.  The replies vary the *)
(* length byte, one byte of the protocol literal, one reserved byte, the   *)
(* content identifier and the peer identifier.                             *)
(***************************************************************************)
\* the k-th sample identifier
Sample(k) == [i \in 1..20 |-> (37 * k + i) % 256]

Samples == { Sample(k) : k \in 0..MaxSample - 1 }

\* the content identifier of the torrent this client asks for
LocalInfoHash == Sample(0)

LengthBytes == {19, 0, 18, 20, 255}

ProtocolFields ==
    {Protocol} \cup
    { [Protocol EXCEPT ![i] = v] : <<i, v>> \in (1..19) \X {0, 98} }

ReservedFields ==
    {Zeros(8)} \cup { [Zeros(8) EXCEPT ![i] = 16] : i \in 1..8 }

HandshakeReplies ==
    { <<l>> \o p \o r \o h \o id :
        <<l, p, r, h, id>> \in LengthBytes \X ProtocolFields \X ReservedFields
                                 \X Samples \X (Samples \cup {DefaultPeerId}) }

\* the variables a specification does not use keep these values
NoFrame == [type |-> "NoFrame"]

LayIdle == args = None /\ layout = None

HsIdle == hs_args = None /\ hs_in = <<>> /\ hs_out = None

WireIdle ==
    /\ message = None /\ send_out = None /\ decoded = None
    /\ stream = <<>> /\ consumed = 0 /\ received = <<>>

VpIdle == vp_args = None /\ vp_result = None

FnIdle == fn_args = None /\ fn_result = None

ConnIdle ==
    /\ pc = "Idle" /\ rx = NoFrame /\ log = <<>> /\ piece = <<>> /\ blk = 0
    /\ init_result = "none" /\ dp_result = "none"

InitHandshake ==
    /\ hs_args = None
    /\ hs_in \in HandshakeReplies
    /\ hs_out = None
    /\ LayIdle
    /\ ConnIdle
    /\ WireIdle
    /\ VpIdle
    /\ FnIdle

ParseHandshake ==
    /\ hs_in # <<>>
    /\ hs_out = None
    /\ hs_out' = HandShake_try_from(hs_in)
    /\ pc = "Idle"
    /\ UNCHANGED <<hs_args, hs_in, layout_vars, conn_vars, wire_vars, vp_vars,
                   fn_vars>>

NextHandshake == ParseHandshake

SpecHandshake == InitHandshake /\ [][NextHandshake]_vars

\* C10: parsing a 68-byte handshake reply fails if and only if byte 0 is not
\* 19 or bytes 1..19 are not "BitTorrent protocol"; otherwise it succeeds
\* whatever the reserved bytes, the content identifier and the peer
\* identifier are, and yields info_hash = bytes 28..47, peer_id = bytes 48..67
C10_HandshakeParse ==
    hs_out # None =>
        /\ (hs_out.status # "ok") <=>
               (hs_in[1] # 19 \/ SubSeq(hs_in, 2, 20) # Protocol)
        /\ hs_out.status = "ok" =>
               /\ hs_out.info_hash = SubSeq(hs_in, 29, 48)
               /\ hs_out.peer_id = SubSeq(hs_in, 49, 68)

\* a reply with nonzero reserved bytes and another content identifier than
\* the one asked for has been accepted
C10_Witness ==
    /\ hs_out.status = "ok"
    /\ hs_out.reserved # Zeros(8)
    /\ hs_out.info_hash # LocalInfoHash
    /\ hs_out.peer_id # DefaultPeerId

(***************************************************************************)
(* SpecHandshakeBuild: a handshake is built by HandShake::new, optionally  *)
(* followed by peer_id, serialized to 68 bytes and converted back.         *)
(***************************************************************************)
\* 20-byte identifiers: the samples, all zeros, all ones, the default peer
\* identifier and one that reads like the start of a handshake
Identifiers ==
    Samples \cup { Zeros(20), [i \in 1..20 |-> 255], DefaultPeerId,
                   <<19>> \o Protocol }

\* peer_id <<>>: HandShake::peer_id is not called
BuildInputs ==
    { [info_hash |-> h, peer_id |-> id] :
        <<h, id>> \in Identifiers \X (Identifiers \cup {<<>>}) }

\* HandShake::new(info_hash), optionally followed by .peer_id(peer_id)
BuiltHandShake(a) ==
    IF a.peer_id = <<>> THEN HandShake_new(a.info_hash)
    ELSE HandShake_peer_id(HandShake_new(a.info_hash), a.peer_id)

InitHandshakeBuild ==
    /\ hs_args \in BuildInputs
    /\ hs_in = <<>>
    /\ hs_out = None
    /\ LayIdle
    /\ ConnIdle
    /\ WireIdle
    /\ VpIdle
    /\ FnIdle

SerializeHandshake ==
    /\ pc = "Idle"
    /\ hs_args # None
    /\ hs_in = <<>>
    /\ hs_in' = HandShake_into_bytes(BuiltHandShake(hs_args))
    /\ UNCHANGED <<hs_args, hs_out, layout_vars, conn_vars, wire_vars, vp_vars,
                   fn_vars>>

NextHandshakeBuild == SerializeHandshake \/ ParseHandshake

SpecHandshakeBuild == InitHandshakeBuild /\ [][NextHandshakeBuild]_vars

\* C11: a handshake built by HandShake::new(info_hash), optionally followed
\* by peer_id(id), serializes to 68 bytes: 19, "BitTorrent protocol", 8 zero
\* bytes, the info_hash, the peer id ("00112233445566778899" when peer_id was
\* not called); parsing them succeeds and gives the same info_hash and peer id
C11_HandshakeRoundTrip ==
    hs_args # None =>
        LET id == IF hs_args.peer_id = <<>>
                  THEN <<48, 48, 49, 49, 50, 50, 51, 51, 52, 52,
                         53, 53, 54, 54, 55, 55, 56, 56, 57, 57>>
                  ELSE hs_args.peer_id
        IN  /\ hs_in # <<>> =>
                 /\ Len(hs_in) = 68
                 /\ hs_in[1] = 19
                 /\ SubSeq(hs_in, 2, 20) = Protocol
                 /\ \A i \in 21..28 : hs_in[i] = 0
                 /\ SubSeq(hs_in, 29, 48) = hs_args.info_hash
                 /\ SubSeq(hs_in, 49, 68) = id
            /\ hs_out # None =>
                 /\ hs_out.status = "ok"
                 /\ hs_out.info_hash = hs_args.info_hash
                 /\ hs_out.peer_id = id

\* a handshake whose content identifier reads like the start of a handshake
\* and whose peer identifier was set has gone through both conversions
C11_Witness ==
    /\ hs_args # None
    /\ hs_args.info_hash = <<19>> \o Protocol
    /\ hs_args.peer_id = Sample(1)
    /\ hs_out # None
    /\ hs_out.status = "ok"

(***************************************************************************)
(* SpecLayout: calculate_block_length on torrents whose pieces are         *)
(* between 1 byte and a little over 2^24 bytes long.                       *)
(***************************************************************************)
\* piece lengths: the small ones, the sample of the specification
\* (32768 and a last piece of 27871) and the lengths around 2^24
LayoutLengths ==
    (1..MaxSmallLen) \cup {27871, 2^15}
        \cup {2^F32Digits - 1, 2^F32Digits, 2^F32Digits + 1, 2^F32Digits + 3}

LayoutBlockSizes == (1..MaxSmallLen) \cup {2^14}

\* the torrents of n pieces of length pl whose last piece has length last
\* (1 <= last <= pl: every piece has at least one byte), as a single file
\* and as two files
LayoutTorrents ==
    { [piece_length |-> pl, piece_count |-> n,
       content |-> [kind |-> "SingleFile", length |-> pl * (n - 1) + last]] :
         <<pl, n, last>> \in {t \in LayoutLengths \X (1..MaxPieces) \X LayoutLengths :
                                t[3] <= t[1]} }
    \cup
    { [piece_length |-> pl, piece_count |-> n,
       content |-> [kind |-> "MultiFile", files |-> <<pl * (n - 1), last>>]] :
         <<pl, n, last>> \in {t \in LayoutLengths \X (1..MaxPieces) \X LayoutLengths :
                                t[3] <= t[1]} }

LayoutInputs ==
    { [torrent |-> t, piece_index |-> i, block_size |-> b, debug |-> d] :
        <<t, i, b, d>> \in { x \in LayoutTorrents \X (0..MaxPieces - 1)
                                     \X LayoutBlockSizes \X BOOLEAN :
                               x[2] < x[1].piece_count } }


InitLayout ==
    /\ args \in LayoutInputs
    /\ layout = None
    /\ HsIdle
    /\ ConnIdle
    /\ WireIdle
    /\ VpIdle
    /\ FnIdle

Calculate ==
    /\ pc = "Idle"
    /\ layout = None
    /\ args # None
    /\ layout' = calculate_block_length(args.torrent, args.piece_index,
                                         args.block_size, args.debug)
    /\ UNCHANGED <<args, hs_vars, conn_vars, wire_vars, vp_vars,
                   fn_vars>>

NextLayout == Calculate

SpecLayout == InitLayout /\ [][NextLayout]_vars

\* C1: for every torrent, every piece index in range and every block_size
\* >= 1, the returned triple satisfies
\* (block_count-1)*block_size + last_block_length = piece_length
C1_BlockLayoutExact ==
    layout.status = "ok" =>
        (layout.block_count - 1) * args.block_size + layout.last_block_length
            = layout.piece_length

C18_ExactCeiling ==
    layout.status = "ok" =>
        LET n == layout.piece_length
            b == args.block_size
        IN  /\ layout.block_count = (n + b - 1) \div b
            /\ layout.last_block_length = IF n % b = 0 THEN b ELSE n % b

(***************************************************************************)
(* peer.rs: peer messages.  A PeerMessage is [type |-> "Choke"],           *)
(* "UnChoke", "Interested", "NotInterested", [type |-> "Have",             *)
(* piece_index], [type |-> "Bitfield", fields], [type |-> "Request",       *)
(* piece_index, offset, length], [type |-> "Piece", piece_index, offset,   *)
(* piece], [type |-> "Cancel", piece_index, offset, length].               *)
(* A frame on the wire is the encoding of a PeerMessage, or a frame        *)
(* receive_message cannot decode: [type |-> "KeepAlive"] (declared length  *)
(* 0) and [type |-> "Unknown", code] (a type code that is none of 0..8).   *)
(***************************************************************************)
MessageTypes ==
    {"Choke", "UnChoke", "Interested", "NotInterested", "Have", "Bitfield",
     "Request", "Piece", "Cancel"}

Request(piece_index, offset, length) ==
    [type |-> "Request", piece_index |-> piece_index, offset |-> offset,
     length |-> length]

\* receive_message, once the 4 + length bytes of the frame have been read:
\* the conversion of the payload.  It indexes value[0] whatever the length
\* (a panic for an empty payload) and fails on an unknown type code.
receive_message(frame) ==
    IF frame.type = "KeepAlive" THEN [status |-> "panic"]
    ELSE IF frame.type \notin MessageTypes THEN [status |-> "err"]
    ELSE [status |-> "ok", msg |-> frame]

(***************************************************************************)
(* peer.rs: initiate_download.  Each operator gives what the function does *)
(* with the result r of one of its two receive_message calls: "next" (go   *)
(* on), "err" (return the error) or "panic".                               *)
(***************************************************************************)
\* a faulty variant of initiate_bitfield: no check of the first message
initiate_bitfield_Unchecked(r) ==
    IF r.status # "ok" THEN r.status ELSE "next"

\* lines 447-450
initiate_bitfield(r) ==
    IF r.status # "ok" THEN r.status
    ELSE IF r.msg.type = "Bitfield" THEN "next"
    ELSE "err"

\* a faulty variant of initiate_unchoke: a Choke is taken for the awaited message too
initiate_unchoke_ChokeToo(r) ==
    IF r.status # "ok" THEN r.status
    ELSE IF r.msg.type \in {"UnChoke", "Choke"} THEN "next"
    ELSE "err"

\* a faulty variant of initiate_unchoke: no check of the second message
initiate_unchoke_Unchecked(r) ==
    IF r.status # "ok" THEN r.status ELSE "next"

\* lines 454-457
initiate_unchoke(r) ==
    IF r.status # "ok" THEN r.status
    ELSE IF r.msg.type = "UnChoke" THEN "next"
    ELSE "err"

(***************************************************************************)
(* Spec: one connection.  The caller of the functions of peer.rs is not    *)
(* part of the sources; it is modelled from the specification (4.4, 5):    *)
(* send the handshake, read and convert the 68-byte reply,                 *)
(* initiate_download, download_piece, close.                               *)
(*                                                                         *)
(* pc: "Connected", "HandshakeSent" (the caller); "init_bitfield",         *)
(* "init_interested", "init_unchoke", "init_done" (initiate_download       *)
(* blocked in its first receive, about to send, blocked in its second      *)
(* receive, returned); "dp_block", "dp_reply", "dp_done" (download_block   *)
(* about to send the request of block blk, blocked in its receive;         *)
(* download_piece returned); "Aborted" (a panic); "Closed".                *)
(***************************************************************************)
Tx(m) == [dir |-> "tx", msg |-> m]
Rx(m) == [dir |-> "rx", msg |-> m]

HandShakeFrame(bytes) == [type |-> "HandShake", bytes |-> bytes]

\* the replies to the handshake: a well-formed one for the same content, one
\* for other content, one with a wrong length byte, one with a wrong literal
SessionHandshakeReplies ==
    { HandShake_into_bytes(HandShake_new(h)) : h \in {LocalInfoHash, Sample(1)} }
    \cup { <<0>> \o Protocol \o Zeros(8) \o LocalInfoHash \o DefaultPeerId,
           <<19>> \o [Protocol EXCEPT ![1] = 98] \o Zeros(8) \o LocalInfoHash
               \o DefaultPeerId }

\* the frames a peer may send at any time
PlainFrames ==
    { [type |-> t] : t \in {"Choke", "UnChoke", "Interested", "NotInterested",
                            "KeepAlive"} }
    \cup { [type |-> "Have", piece_index |-> 0],
           [type |-> "Bitfield", fields |-> <<192>>],
           [type |-> "Unknown", code |-> 9],
           [type |-> "Cancel", piece_index |-> 0, offset |-> 0, length |-> 1],
           Request(0, 0, 1) }

\* two pieces, the last one of 1..MaxPieceLen bytes
SessionTorrents ==
    { [piece_length |-> MaxPieceLen, piece_count |-> 2,
       content |-> [kind |-> "SingleFile", length |-> MaxPieceLen + last]] :
         last \in 1..MaxPieceLen }

SessionInputs ==
    { [torrent |-> t, piece_index |-> i, block_size |-> b, debug |-> d] :
        <<t, i, b, d>> \in SessionTorrents \X {0, 1} \X (2..MaxBlockSize)
                             \X BOOLEAN }

Init ==
    /\ args \in SessionInputs
    /\ layout = None
    /\ HsIdle
    /\ pc = "Connected"
    /\ rx = NoFrame /\ log = <<>> /\ piece = <<>> /\ blk = 0
    /\ init_result = "none" /\ dp_result = "none"
    /\ WireIdle
    /\ VpIdle
    /\ FnIdle

\* the caller sends its handshake
SendHandshake ==
    /\ pc = "Connected"
    /\ log' = Append(log, Tx(HandShakeFrame(
                  HandShake_into_bytes(HandShake_new(LocalInfoHash)))))
    /\ pc' = "HandshakeSent"
    /\ UNCHANGED <<layout_vars, hs_vars, wire_vars, vp_vars,
                   rx, piece, blk, init_result, dp_result,
                   fn_vars>>

\* the caller reads 68 bytes back, converts them and, when the conversion
\* succeeds, calls initiate_download
RecvHandshake ==
    /\ pc = "HandshakeSent"
    /\ \E reply \in SessionHandshakeReplies :
         /\ hs_in' = reply
         /\ hs_out' = HandShake_try_from(reply)
         /\ log' = Append(log, Rx(HandShakeFrame(reply)))
         /\ pc' = IF HandShake_try_from(reply).status = "ok"
                  THEN "init_bitfield" ELSE "Closed"
    /\ UNCHANGED <<layout_vars, hs_args, wire_vars, vp_vars, rx, piece, blk,
                   init_result, dp_result, fn_vars>>

(***************************************************************************)
(* peer.rs: download_piece and download_block.                             *)
(***************************************************************************)
\* download_piece, lines 383-396: the length asked for block i
block_length(i, lo, block_size) ==
    IF i = lo.block_count - 1 THEN lo.last_block_length ELSE block_size

\* a faulty variant of block_request: every block is asked with the full block size
block_request_FullLast(piece_index, i, lo, block_size) ==
    Request(piece_index, i * block_size, block_size)

\* download_piece, lines 383-396, and download_block, lines 408-412: the
\* Request sent for block i
block_request(piece_index, i, lo, block_size) ==
    Request(piece_index, i * block_size, block_length(i, lo, block_size))

\* a faulty variant of download_block_reply: a message that is not a Piece is
\* taken for the answer, nothing being copied
download_block_reply_NonPieceSkipped(r, req, buf, debug) ==
    IF r.status # "ok" THEN [status |-> r.status, piece |-> buf]
    ELSE [status |-> "ok", piece |-> buf]

\* download_block, lines 414-443: what it does with the result r of its
\* receive_message call, req being the Request it sent and buf the piece
\* buffer: [status, piece].  The piece index of the Piece message is not
\* bound (piece_index: _); offset and length are compared by debug
\* assertions only; the payload is copied to the offset the message names.
download_block_reply(r, req, buf, debug) ==
    IF r.status # "ok" THEN [status |-> r.status, piece |-> buf]
    ELSE IF r.msg.type # "Piece" THEN [status |-> "err", piece |-> buf]
    ELSE LET block_piece_index == req.piece_index
             block_offset == r.msg.offset
             block == r.msg.piece
             blen == Len(block)
         IN  IF debug /\ req.piece_index # block_piece_index
                 THEN [status |-> "panic", piece |-> buf]
             ELSE IF debug /\ req.offset # block_offset
                 THEN [status |-> "panic", piece |-> buf]
             ELSE IF debug /\ req.length # blen
                 THEN [status |-> "panic", piece |-> buf]
             ELSE IF block_offset + blen > Len(buf)
                 \* the slice piece[block_offset..block_offset + len] is
                 \* out of range
                 THEN [status |-> "panic", piece |-> buf]
             ELSE [status |-> "ok",
                   piece |-> [p \in 1..Len(buf) |->
                                IF block_offset < p /\ p <= block_offset + blen
                                THEN block[p - block_offset] ELSE buf[p]]]

\* the payload bytes of the peer's Piece messages (the buffer starts as 0s)
FillBytes == {1, 2}

\* the Piece messages a peer answers a Request with: the one asked for, and
\* those that differ from it in one field (the next piece index; the next
\* byte offset or the start of the piece; one byte less or one byte more),
\* the payload filled with one of FillBytes
PieceShapes(req) ==
    { <<req.piece_index, req.offset, req.length>>,
      <<req.piece_index + 1, req.offset, req.length>>,
      <<req.piece_index, req.offset + 1, req.length>>,
      <<req.piece_index, 0, req.length>>,
      <<req.piece_index, req.offset, req.length - 1>>,
      <<req.piece_index, req.offset, req.length + 1>> }

PieceReplies(req) ==
    { [type |-> "Piece", piece_index |-> sh[1], offset |-> sh[2],
       piece |-> [j \in 1..sh[3] |-> fill]] :
        <<sh, fill>> \in PieceShapes(req) \X FillBytes }

\* the Request download_block is waiting the answer of
CurrentRequest == block_request(args.piece_index, blk, layout, args.block_size)

ReceivePositions == {"init_bitfield", "init_unchoke", "dp_reply"}

FramesAt ==
    IF pc = "dp_reply" THEN PlainFrames \cup PieceReplies(CurrentRequest)
    ELSE PlainFrames \cup PieceReplies(Request(0, 0, 1))

\* receive_message, lines 313-317: the 4-byte length prefix of the next
\* frame is read
RecvLength ==
    /\ pc \in ReceivePositions
    /\ rx = NoFrame
    /\ \E f \in FramesAt : rx' = f
    /\ UNCHANGED <<layout_vars, hs_vars, wire_vars, vp_vars,
                   pc, log, piece, blk, init_result, dp_result,
                   fn_vars>>

\* receive_message, lines 314-321: a read_exact fails (the stream ends or
\* the transport fails) and the function that waits returns the error
RecvFail ==
    /\ pc \in ReceivePositions
    /\ rx' = NoFrame
    /\ IF pc = "dp_reply"
       THEN /\ dp_result' = "err" /\ pc' = "dp_done"
            /\ UNCHANGED init_result
       ELSE /\ init_result' = "err" /\ pc' = "init_done"
            /\ UNCHANGED dp_result
    /\ UNCHANGED <<layout_vars, hs_vars, wire_vars, vp_vars, log, piece, blk,
                   fn_vars>>

\* initiate_download, lines 447-450: the body of the first frame is read
InitBitfield ==
    /\ pc = "init_bitfield"
    /\ rx # NoFrame
    /\ LET o == initiate_bitfield(receive_message(rx))
       IN  /\ pc' = IF o = "next" THEN "init_interested"
                    ELSE IF o = "err" THEN "init_done" ELSE "Aborted"
           /\ init_result' = IF o = "next" THEN init_result ELSE o
    /\ log' = Append(log, Rx(rx))
    /\ rx' = NoFrame
    /\ UNCHANGED <<layout_vars, hs_vars, wire_vars, vp_vars,
                   piece, blk, dp_result, fn_vars>>

\* initiate_download, line 452: send_message(Interested) succeeds or fails
SendInterested ==
    /\ pc = "init_interested"
    /\ \E sent \in BOOLEAN :
         IF sent
         THEN /\ log' = Append(log, Tx([type |-> "Interested"]))
              /\ pc' = "init_unchoke"
              /\ UNCHANGED init_result
         ELSE /\ init_result' = "err"
              /\ pc' = "init_done"
              /\ UNCHANGED log
    /\ UNCHANGED <<layout_vars, hs_vars, wire_vars, vp_vars,
                   rx, piece, blk, dp_result, fn_vars>>

\* initiate_download, lines 454-459: the body of the second frame is read
InitUnchoke ==
    /\ pc = "init_unchoke"
    /\ rx # NoFrame
    /\ LET o == initiate_unchoke(receive_message(rx))
       IN  /\ pc' = IF o = "panic" THEN "Aborted" ELSE "init_done"
           /\ init_result' = IF o = "next" THEN "ok" ELSE o
    /\ log' = Append(log, Rx(rx))
    /\ rx' = NoFrame
    /\ UNCHANGED <<layout_vars, hs_vars, wire_vars, vp_vars,
                   piece, blk, dp_result, fn_vars>>

\* the caller downloads a piece once initiate_download has returned Ok
CallerDownloads == pc = "init_done" /\ init_result = "ok"

\* download_piece, lines 378-381: the layout is computed and the buffer
\* allocated
StartDownload ==
    /\ CallerDownloads
    /\ LET lo == calculate_block_length(args.torrent, args.piece_index,
                                        args.block_size, args.debug)
       IN  /\ layout' = lo
           /\ IF lo.status = "panic"
              THEN /\ pc' = "Aborted" /\ dp_result' = "panic"
                   /\ UNCHANGED piece
              ELSE /\ pc' = "dp_block" /\ piece' = Zeros(lo.piece_length)
                   /\ UNCHANGED dp_result
    /\ blk' = 0
    /\ UNCHANGED <<args, hs_vars, wire_vars, vp_vars, rx, log, init_result,
                   fn_vars>>

\* a faulty variant of SendRequest: the request of the next block is also sent
\* while the answer to the last one is still awaited
SendRequest_Pipelined ==
    /\ pc \in {"dp_block", "dp_reply"}
    /\ LET i == IF pc = "dp_reply" THEN blk + 1 ELSE blk
       IN  /\ i < layout.block_count
           /\ log' = Append(log, Tx(block_request(args.piece_index, i, layout,
                                                  args.block_size)))
    /\ pc' = "dp_reply"
    /\ UNCHANGED <<layout_vars, hs_vars, wire_vars, vp_vars,
                   rx, piece, blk, init_result, dp_result,
                   fn_vars>>

\* download_block, line 413: send_message(Request) succeeds or fails
SendRequest ==
    /\ pc = "dp_block"
    /\ \E sent \in BOOLEAN :
         IF sent
         THEN /\ log' = Append(log, Tx(CurrentRequest))
              /\ pc' = "dp_reply"
              /\ UNCHANGED dp_result
         ELSE /\ dp_result' = "err"
              /\ pc' = "dp_done"
              /\ UNCHANGED log
    /\ UNCHANGED <<layout_vars, hs_vars, wire_vars, vp_vars,
                   rx, piece, blk, init_result, fn_vars>>

\* a faulty variant of BlockReply: when the answer is not the awaited Piece
\* or cannot be decoded, the block is asked for again
BlockReply_Retry ==
    /\ pc = "dp_reply"
    /\ rx # NoFrame
    /\ LET o == download_block_reply(receive_message(rx), CurrentRequest,
                                     piece, args.debug)
       IN  /\ piece' = o.piece
           /\ IF o.status = "ok" /\ blk < layout.block_count - 1
              THEN /\ blk' = blk + 1 /\ pc' = "dp_block"
                   /\ UNCHANGED dp_result
              ELSE IF o.status = "err"
              THEN /\ pc' = "dp_block"
                   /\ UNCHANGED <<blk, dp_result>>
              ELSE /\ dp_result' = o.status
                   /\ pc' = IF o.status = "panic" THEN "Aborted" ELSE "dp_done"
                   /\ UNCHANGED blk
    /\ log' = Append(log, Rx(rx))
    /\ rx' = NoFrame
    /\ UNCHANGED <<layout_vars, hs_vars, wire_vars, vp_vars, init_result,
                   fn_vars>>

\* download_block, lines 414-443, and the loop of download_piece, lines
\* 383-398: the body of the answer is read
BlockReply ==
    /\ pc = "dp_reply"
    /\ rx # NoFrame
    /\ LET o == download_block_reply(receive_message(rx), CurrentRequest,
                                     piece, args.debug)
       IN  /\ piece' = o.piece
           /\ IF o.status = "ok" /\ blk < layout.block_count - 1
              THEN /\ blk' = blk + 1 /\ pc' = "dp_block"
                   /\ UNCHANGED dp_result
              ELSE /\ dp_result' = o.status
                   /\ pc' = IF o.status = "panic" THEN "Aborted" ELSE "dp_done"
                   /\ UNCHANGED blk
    /\ log' = Append(log, Rx(rx))
    /\ rx' = NoFrame
    /\ UNCHANGED <<layout_vars, hs_vars, wire_vars, vp_vars, init_result,
                   fn_vars>>

\* the caller closes the connection when a function has returned and
\* nothing is left to do
Close ==
    /\ pc \in {"init_done", "dp_done"}
    /\ ~CallerDownloads
    /\ pc' = "Closed"
    /\ UNCHANGED <<layout_vars, hs_vars, wire_vars, vp_vars,
                   rx, log, piece, blk, init_result,
                   dp_result, fn_vars>>

Next ==
    \/ SendHandshake
    \/ RecvHandshake
    \/ RecvLength
    \/ RecvFail
    \/ InitBitfield
    \/ SendInterested
    \/ InitUnchoke
    \/ StartDownload
    \/ SendRequest
    \/ BlockReply
    \/ Close

Spec == Init /\ [][Next]_vars

(***************************************************************************)
(* What the log shows.                                                     *)
(***************************************************************************)
IsRx(e) == e.dir = "rx"
IsTx(e) == e.dir = "tx"
IsTxHandShake(e) == e.dir = "tx" /\ e.msg.type = "HandShake"
IsRxHandShake(e) == e.dir = "rx" /\ e.msg.type = "HandShake"
IsRxBitfield(e) == e.dir = "rx" /\ e.msg.type = "Bitfield"
IsTxInterested(e) == e.dir = "tx" /\ e.msg.type = "Interested"
IsRxUnChoke(e) == e.dir = "rx" /\ e.msg.type = "UnChoke"
IsTxRequest(e) == e.dir = "tx" /\ e.msg.type = "Request"

Msgs(events) == [k \in 1..Len(events) |-> events[k].msg]

IsPrefix(a, b) == Len(a) <= Len(b) /\ a = SubSeq(b, 1, Len(a))

\* the position in the log of the first event after position n that
\* satisfies T, 0 when there is none
FirstAfter(T(_), n) ==
    IF \E k \in (n + 1)..Len(log) : T(log[k])
    THEN CHOOSE k \in (n + 1)..Len(log) :
             T(log[k]) /\ \A j \in (n + 1)..(k - 1) : ~T(log[j])
    ELSE 0

\* the Request messages sent, in order
RequestsSent == Msgs(SelectSeq(log, IsTxRequest))

\* the frames read after the handshake, in order; initiate_download reads
\* the first two of them
FramesRead == Msgs(SelectSeq(SubSeq(log, 3, Len(log)), IsRx))

InitRx == SubSeq(FramesRead, 1, IF Len(FramesRead) < 2 THEN Len(FramesRead) ELSE 2)

\* the frames read by download_piece: the answers to its requests
Replies ==
    LET first == FirstAfter(IsTxRequest, 0)
    IN  IF first = 0 THEN <<>>
        ELSE Msgs(SelectSeq(SubSeq(log, first, Len(log)), IsRx))

\* the requests of a piece as the specification lays them out
ExpectedRequests ==
    [k \in 1..layout.block_count |->
        Request(args.piece_index, (k - 1) * args.block_size,
                IF k = layout.block_count THEN layout.last_block_length
                ELSE args.block_size)]

\* C2 as stated: download_piece sends exactly block_count Request messages,
\* in increasing block index order, each with the requested piece index,
\* offset = index*block_size and length = block_size but for the last
\* (last_block_length)
C2_ExactlyBlockCount ==
    dp_result # "none" /\ layout.status = "ok" =>
        RequestsSent = ExpectedRequests

\* C2 as amended: a download_piece that returns successfully has sent exactly
\* those block_count Request messages in that order; one that fails has sent
\* a prefix of them
C2_RequestsOnSuccess ==
    /\ layout.status # "ok" => RequestsSent = <<>>
    /\ layout.status = "ok" => IsPrefix(RequestsSent, ExpectedRequests)
    /\ dp_result = "ok" => RequestsSent = ExpectedRequests

\* a piece of several blocks with a shorter last block has been downloaded
C2_Witness ==
    /\ dp_result = "ok"
    /\ layout.block_count >= 2
    /\ layout.last_block_length # args.block_size

\* C3: at most one block request is outstanding: between two Request
\* messages sent, a complete frame (the answer to the first) has been read
C3_OneOutstanding ==
    /\ \A a, b \in 1..Len(log) :
         a < b /\ IsTxRequest(log[a]) /\ IsTxRequest(log[b]) =>
             \E c \in (a + 1)..(b - 1) : IsRx(log[c])
    /\ Len(RequestsSent) <= Len(Replies) + 1
    /\ (rx # NoFrame /\ Len(RequestsSent) > 0) => pc = "dp_reply"

\* a second request has been sent
C3_Witness == Len(RequestsSent) >= 2 /\ dp_result = "none"

\* C4: if the Piece message answering a Request carries another piece index
\* than the requested one, download_piece fails (by an error or a panic) and
\* the payload is not copied into the piece buffer
C4_IndexMismatchFails ==
    [][ ( /\ pc = "dp_reply" /\ log' # log
          /\ rx.type = "Piece"
          /\ rx.piece_index # CurrentRequest.piece_index )
        => (dp_result' \in {"err", "panic"} /\ piece' = piece) ]_vars

\* C5: if the Piece message answering a Request carries another offset or
\* another payload length than requested, download_piece fails (a panic of
\* the debug assertions is counted as a failure here) and no byte of the
\* response is written to the piece buffer
C5_OffsetLengthMismatchFails ==
    [][ ( /\ pc = "dp_reply" /\ log' # log
          /\ rx.type = "Piece"
          /\ \/ rx.offset # CurrentRequest.offset
             \/ Len(rx.piece) # CurrentRequest.length )
        => (dp_result' \in {"err", "panic"} /\ piece' = piece) ]_vars

\* C6: when download_piece returns successfully the buffer has piece_length
\* bytes, position p holds byte p mod block_size of the answer to block
\* p div block_size, and no position was written by two blocks
C6_BufferFilled ==
    dp_result = "ok" =>
        /\ Len(piece) = layout.piece_length
        /\ \A p \in 0..(Len(piece) - 1) :
             LET r == Replies[(p \div args.block_size) + 1]
                 q == p % args.block_size
             IN  q < Len(r.piece) /\ piece[p + 1] = r.piece[q + 1]
        /\ \A a, b \in 1..Len(Replies) :
             a < b => \/ Replies[a].offset + Len(Replies[a].piece) <= Replies[b].offset
                      \/ Replies[b].offset + Len(Replies[b].piece) <= Replies[a].offset

\* C7: initiate_download succeeds if and only if the first message received
\* is a Bitfield and the next one an UnChoke; any other message in either
\* position makes it fail with an error
C7_InitiateIff ==
    /\ init_result = "ok" <=>
           /\ Len(InitRx) = 2
           /\ InitRx[1].type = "Bitfield"
           /\ InitRx[2].type = "UnChoke"
    /\ (Len(InitRx) >= 1 /\ InitRx[1].type \in MessageTypes \ {"Bitfield"})
           => init_result = "err"
    /\ (Len(InitRx) = 2 /\ InitRx[2].type \in MessageTypes \ {"UnChoke"})
           => init_result = "err"

\* a Have arrived between the Bitfield and the UnChoke
C7_Witness ==
    /\ Len(InitRx) = 2
    /\ InitRx[1].type = "Bitfield"
    /\ InitRx[2].type = "Have"
    /\ init_result = "err"

\* C8: Interested is sent at most once and only after a Bitfield has been
\* received; when the first message received is not a Bitfield,
\* initiate_download sends nothing
C8_InterestedOnce ==
    /\ Cardinality({k \in 1..Len(log) : IsTxInterested(log[k])}) <= 1
    /\ \A k \in 1..Len(log) :
         IsTxInterested(log[k]) => \E j \in 1..(k - 1) : IsRxBitfield(log[j])
    /\ (Len(InitRx) >= 1 /\ InitRx[1].type # "Bitfield")
           => \A k \in 3..Len(log) : ~IsTx(log[k])

\* initiate_download has returned after a first message that is no Bitfield
C8_Witness ==
    /\ init_result = "err"
    /\ Len(InitRx) = 1
    /\ InitRx[1].type = "UnChoke"

\* the milestones of a connection, as positions in the log (0: not reached)
AtHandshakeSent == FirstAfter(IsTxHandShake, 0)

AtHandshakeVerified ==
    IF AtHandshakeSent = 0 \/ hs_out.status # "ok" THEN 0
    ELSE FirstAfter(IsRxHandShake, AtHandshakeSent)

AtBitfieldReceived ==
    IF AtHandshakeVerified = 0 THEN 0
    ELSE FirstAfter(IsRxBitfield, AtHandshakeVerified)

AtInterestedSent ==
    IF AtBitfieldReceived = 0 THEN 0
    ELSE FirstAfter(IsTxInterested, AtBitfieldReceived)

AtUnchoked ==
    IF AtInterestedSent = 0 THEN 0
    ELSE FirstAfter(IsRxUnChoke, AtInterestedSent)

MessagesSent == Msgs(SelectSeq(log, IsTx))

\* C19: the core never retries: within a download_piece or initiate_download
\* call each message is sent at most once (each block is requested at most
\* once), and the step in which a send, a receive or a check fails, and every
\* step after it, sends no message on the connection
C19_NoRetry ==
    /\ [] ( \A a, b \in 1..Len(MessagesSent) :
                a < b => MessagesSent[a] # MessagesSent[b] )
    /\ [][ ( \/ init_result' \in {"err", "panic"}
             \/ dp_result' \in {"err", "panic"} )
           => Msgs(SelectSeq(log', IsTx)) = MessagesSent ]_vars

\* the answer to the first of two requests was not a Piece: download_piece
\* failed, and the connection was closed with the second block never asked
C19_Witness ==
    /\ dp_result = "err"
    /\ layout.block_count = 2
    /\ Len(RequestsSent) = 1
    /\ Len(Replies) = 1
    /\ Replies[1].type = "Choke"

\* the message types download_block takes for a failure
NonPieceTypes == MessageTypes \ {"Piece"}

\* C29: if the message received in reply to a block Request is any variant
\* other than Piece, download_piece returns a failure at once: the step that
\* handles the reply leaves the call failed, the piece buffer as it was and
\* the requests sent as they were, and no later step sends a request or
\* writes to the buffer
C29_NonPieceFails ==
    /\ [][ ( /\ pc = "dp_reply" /\ rx # NoFrame
             /\ rx.type \in NonPieceTypes )
           => /\ dp_result' = "err"
              /\ pc' = "dp_done"
              /\ piece' = piece
              /\ Msgs(SelectSeq(log', IsTxRequest)) = RequestsSent ]_vars
    /\ [][ dp_result = "err"
           => /\ dp_result' = "err"
              /\ piece' = piece
              /\ Msgs(SelectSeq(log', IsTxRequest)) = RequestsSent ]_vars

\* the answer to the first of two requests was a Have: download_piece failed
\* with the buffer still all zeros and the second block never asked for
C29_Witness ==
    /\ dp_result = "err"
    /\ pc = "Closed"
    /\ layout.block_count = 2
    /\ Len(RequestsSent) = 1
    /\ Len(Replies) = 1
    /\ Replies[1].type = "Have"
    /\ piece = Zeros(layout.piece_length)
    /\ pc = "Closed"

(***************************************************************************)
(* peer.rs: the encoding of peer messages.  A payload is a sequence of     *)
(* bytes: the type code, then the body.  u32 values are below 2^31 in the  *)
(* model.                                                                  *)
(***************************************************************************)
\* a faulty variant of put_u32: the least significant byte first
put_u32_le(n) ==
    <<n % 256, (n \div 2^8) % 256, (n \div 2^16) % 256, (n \div 2^24) % 256>>

\* BufMut::put_u32 and u32::to_be_bytes: the most significant byte first
put_u32(n) ==
    <<(n \div 2^24) % 256, (n \div 2^16) % 256, (n \div 2^8) % 256, n % 256>>

\* u32::from_be_bytes of the 4 bytes of value that start at byte offset
from_be_bytes(value, offset) ==
    value[offset + 1] * 2^24 + value[offset + 2] * 2^16
        + value[offset + 3] * 2^8 + value[offset + 4]

\* value[offset..]
SliceFrom(value, offset) == SubSeq(value, offset + 1, Len(value))

\* From<PeerMessage> for Vec<u8>
PeerMessage_into_bytes(value) ==
    CASE value.type = "Choke" -> <<0>>
      [] value.type = "UnChoke" -> <<1>>
      [] value.type = "Interested" -> <<2>>
      [] value.type = "NotInterested" -> <<3>>
      [] value.type = "Have" -> <<4>> \o put_u32(value.piece_index)
      [] value.type = "Bitfield" -> <<5>> \o value.fields
      [] value.type = "Request" ->
             <<6>> \o put_u32(value.piece_index) \o put_u32(value.offset)
                 \o put_u32(value.length)
      [] value.type = "Piece" ->
             <<7>> \o put_u32(value.piece_index) \o put_u32(value.offset)
                 \o value.piece
      [] value.type = "Cancel" ->
             <<8>> \o put_u32(value.piece_index) \o put_u32(value.offset)
                 \o put_u32(value.length)

\* TryFrom<&[u8]> for PeerMessage: [status |-> "ok", msg], [status |-> "err",
\* code] (UnknownCode) or [status |-> "panic"] (value[0] of an empty payload,
\* a slice that ends after the payload)
PeerMessage_try_from(value) ==
    IF Len(value) = 0 THEN [status |-> "panic"]
    ELSE LET code == value[1]
             Ok(m) == [status |-> "ok", msg |-> m]
         IN  CASE code = 0 -> Ok([type |-> "Choke"])
               [] code = 1 -> Ok([type |-> "UnChoke"])
               [] code = 2 -> Ok([type |-> "Interested"])
               [] code = 3 -> Ok([type |-> "NotInterested"])
               [] code = 4 ->
                      IF Len(value) < 5 THEN [status |-> "panic"]
                      ELSE Ok([type |-> "Have",
                               piece_index |-> from_be_bytes(value, 1)])
               [] code = 5 ->
                      Ok([type |-> "Bitfield", fields |-> SliceFrom(value, 1)])
               [] code = 6 ->
                      IF Len(value) < 13 THEN [status |-> "panic"]
                      ELSE Ok([type |-> "Request",
                               piece_index |-> from_be_bytes(value, 1),
                               offset |-> from_be_bytes(value, 5),
                               length |-> from_be_bytes(value, 9)])
               [] code = 7 ->
                      IF Len(value) < 9 THEN [status |-> "panic"]
                      ELSE Ok([type |-> "Piece",
                               piece_index |-> from_be_bytes(value, 1),
                               offset |-> from_be_bytes(value, 5),
                               piece |-> SliceFrom(value, 9)])
               [] code = 8 ->
                      IF Len(value) < 13 THEN [status |-> "panic"]
                      ELSE Ok([type |-> "Cancel",
                               piece_index |-> from_be_bytes(value, 1),
                               offset |-> from_be_bytes(value, 5),
                               length |-> from_be_bytes(value, 9)])
               [] OTHER -> [status |-> "err", code |-> code]

(***************************************************************************)
(* SpecCodec: a message is encoded and converted back (ConvertMessage),    *)
(* and given to send_message over a transport that accepts any number of   *)
(* the bytes offered to a write call, or fails (SendMessage).              *)
(***************************************************************************)
\* u32 field values: 0, 0x01020304 and the largest value of the model
U32Samples == {0, 16909060, 2147483647}

\* the bytes of Bitfield and Piece payloads; 7 is also the code of Piece
PayloadBytes == {0, 7, 255}

ByteStrings == UNION { [1..k -> PayloadBytes] : k \in 0..MaxPayload }

CodecMessages ==
    { [type |-> t] : t \in {"Choke", "UnChoke", "Interested", "NotInterested"} }
    \cup { [type |-> "Have", piece_index |-> i] : i \in U32Samples \cup {1} }
    \cup { [type |-> "Bitfield", fields |-> f] : f \in ByteStrings }
    \cup { [type |-> t, piece_index |-> x[1], offset |-> x[2], length |-> x[3]] :
             <<t, x>> \in {"Request", "Cancel"}
                            \X (U32Samples \X U32Samples \X U32Samples) }
    \cup { [type |-> "Piece", piece_index |-> x[1], offset |-> x[2],
            piece |-> x[3]] :
             x \in U32Samples \X U32Samples \X ByteStrings }

\* send_message.  accepted: what stream.write returns for the 4 bytes of the
\* length, Ok(accepted) or, for -1, an error; the value of Ok is not looked
\* at.  written: -1 when write_all succeeds, else the number of bytes of the
\* payload on the connection when it fails.  flush does nothing on a
\* TcpStream.  The result is [status, wire], wire being the bytes put on the
\* connection by the call.
send_message(msg, accepted, written) ==
    LET message_buf == PeerMessage_into_bytes(msg)
        length == put_u32(Len(message_buf))
    IN  IF accepted < 0 THEN [status |-> "err", wire |-> <<>>]
        ELSE IF written >= 0
        THEN [status |-> "err",
              wire |-> SubSeq(length, 1, accepted)
                           \o SubSeq(message_buf, 1, written)]
        ELSE [status |-> "ok",
              wire |-> SubSeq(length, 1, accepted) \o message_buf]

InitCodec ==
    /\ message \in CodecMessages
    /\ send_out = None /\ decoded = None
    /\ stream = <<>> /\ consumed = 0 /\ received = <<>>
    /\ LayIdle
    /\ HsIdle
    /\ ConnIdle
    /\ VpIdle
    /\ FnIdle

\* a write call on a connected stream that does not fail accepts at least
\* one of the bytes offered
SendMessage ==
    /\ pc = "Idle"
    /\ message # None
    /\ send_out = None
    /\ \E accepted \in {-1} \cup (1..4) :
         \E written \in -1..(Len(PeerMessage_into_bytes(message)) - 1) :
             send_out' = send_message(message, accepted, written)
    /\ UNCHANGED <<message, decoded, stream, consumed, received>>
    /\ UNCHANGED <<layout_vars, hs_vars, conn_vars, vp_vars,
                   fn_vars>>

ConvertMessage ==
    /\ pc = "Idle"
    /\ message # None
    /\ decoded = None
    /\ decoded' = [payload |-> PeerMessage_into_bytes(message),
                   result |-> PeerMessage_try_from(PeerMessage_into_bytes(message))]
    /\ UNCHANGED <<message, send_out, stream, consumed, received>>
    /\ UNCHANGED <<layout_vars, hs_vars, conn_vars, vp_vars,
                   fn_vars>>

NextCodec == SendMessage \/ ConvertMessage

SpecCodec == InitCodec /\ [][NextCodec]_vars

\* C12: whenever send_message returns success, the bytes that call put on the
\* connection are the 4-byte big-endian length of the payload followed by the
\* payload, also when a write call accepts fewer bytes than offered
C12_FramedOnSuccess ==
    (send_out # None /\ send_out.status = "ok") =>
        LET payload == PeerMessage_into_bytes(message)
        IN  /\ Len(send_out.wire) = 4 + Len(payload)
            /\ send_out.wire[1] * 2^24 + send_out.wire[2] * 2^16
                   + send_out.wire[3] * 2^8 + send_out.wire[4] = Len(payload)
            /\ SubSeq(send_out.wire, 5, Len(send_out.wire)) = payload

\* C15: decode(encode(m)) = m for every peer message m, the 4-byte integer
\* fields being written big-endian and the payload of a Piece or a Bitfield
\* being all the remaining bytes
C15_CodecRoundTrip ==
    decoded # None =>
        LET b == decoded.payload
            U32(o) == b[o + 1] * 2^24 + b[o + 2] * 2^16 + b[o + 3] * 2^8 + b[o + 4]
        IN  /\ decoded.result = [status |-> "ok", msg |-> message]
            /\ message.type \in {"Have", "Request", "Piece", "Cancel"} =>
                   U32(1) = message.piece_index
            /\ message.type = "Have" => Len(b) = 5
            /\ message.type \in {"Request", "Piece", "Cancel"} =>
                   U32(5) = message.offset
            /\ message.type \in {"Request", "Cancel"} =>
                   U32(9) = message.length /\ Len(b) = 13
            /\ message.type = "Piece" => SubSeq(b, 10, Len(b)) = message.piece
            /\ message.type = "Bitfield" => SubSeq(b, 2, Len(b)) = message.fields

\* a Piece whose payload starts with the code of Piece has been converted
C15_Witness ==
    /\ decoded # None
    /\ message.type = "Piece"
    /\ message.piece_index = 16909060
    /\ message.offset = 2147483647
    /\ message.piece = <<7, 255>>
    /\ decoded.result.status = "ok"

(***************************************************************************)
(* peer.rs: receive_message on the bytes of a stream.  s is all a peer     *)
(* sends before it closes the connection, pos the number of bytes read so  *)
(* far.  The result is [status |-> "ok", msg, consumed], [status |-> "err",*)
(* kind, consumed] (kind "UnexpectedEof": a read_exact met the end of the  *)
(* stream, which then is read to its end; "UnknownCode") or [status |->    *)
(* "panic", consumed]; consumed is the number of bytes read after the call.*)
(***************************************************************************)
\* a faulty variant of receive_message_from: a payload cut short by the end
\* of the stream is converted as it is
receive_message_from_Partial(s, pos) ==
    IF Len(s) - pos < 4
    THEN [status |-> "err", kind |-> "UnexpectedEof", consumed |-> Len(s)]
    ELSE LET length == from_be_bytes(s, pos)
             last == IF Len(s) < pos + 4 + length THEN Len(s)
                     ELSE pos + 4 + length
             r == PeerMessage_try_from(SubSeq(s, pos + 5, last))
         IN  IF r.status = "ok"
             THEN [status |-> "ok", msg |-> r.msg, consumed |-> last]
             ELSE IF r.status = "err"
             THEN [status |-> "err", kind |-> "UnknownCode", consumed |-> last]
             ELSE [status |-> "panic", consumed |-> last]

\* a faulty variant of receive_message_from: the type code is read and
\* looked at before the rest of the payload is read
receive_message_from_EarlyReject(s, pos) ==
    IF Len(s) - pos < 4
    THEN [status |-> "err", kind |-> "UnexpectedEof", consumed |-> Len(s)]
    ELSE LET length == from_be_bytes(s, pos)
         IN  IF Len(s) - pos - 4 < length
             THEN [status |-> "err", kind |-> "UnexpectedEof",
                   consumed |-> Len(s)]
             ELSE LET r == PeerMessage_try_from(
                               SubSeq(s, pos + 5, pos + 4 + length))
                  IN  IF r.status = "ok"
                      THEN [status |-> "ok", msg |-> r.msg,
                            consumed |-> pos + 4 + length]
                      ELSE IF r.status = "err"
                      THEN [status |-> "err", kind |-> "UnknownCode",
                            consumed |-> pos + 5]
                      ELSE [status |-> "panic", consumed |-> pos + 4 + length]

\* receive_message
receive_message_from(s, pos) ==
    IF Len(s) - pos < 4
    \* lines 314-316: reading message length
    THEN [status |-> "err", kind |-> "UnexpectedEof", consumed |-> Len(s)]
    ELSE LET length == from_be_bytes(s, pos)
         IN  IF Len(s) - pos - 4 < length
             \* lines 318-321: reading message slice
             THEN [status |-> "err", kind |-> "UnexpectedEof",
                   consumed |-> Len(s)]
             \* line 322
             ELSE LET r == PeerMessage_try_from(
                               SubSeq(s, pos + 5, pos + 4 + length))
                  IN  IF r.status = "ok"
                      THEN [status |-> "ok", msg |-> r.msg,
                            consumed |-> pos + 4 + length]
                      ELSE IF r.status = "err"
                      THEN [status |-> "err", kind |-> "UnknownCode",
                            consumed |-> pos + 4 + length]
                      ELSE [status |-> "panic", consumed |-> pos + 4 + length]

(***************************************************************************)
(* SpecReceive: receive_message is called again and again on a stream of   *)
(* up to MaxFrames frames that may end anywhere, until the end of the      *)
(* stream is met or a call panics.                                         *)
(***************************************************************************)
\* the messages a peer frames
ReceiveMessages ==
    { [type |-> "Choke"], [type |-> "Have", piece_index |-> 1],
      [type |-> "Bitfield", fields |-> <<192>>],
      [type |-> "Piece", piece_index |-> 0, offset |-> 0, piece |-> <<7>>] }

\* the payloads a peer frames: encoded messages, a Choke followed by one more
\* byte, payloads with a type code that is none of 0..8, the empty payload,
\* a Have and a Piece that are too short
RawPayloads ==
    { PeerMessage_into_bytes(m) : m \in ReceiveMessages }
    \cup { <<0, 5>>, <<9>>, <<9, 0, 7>>, <<255, 1>>, <<>>, <<4, 0>>,
           <<7, 0, 0, 0, 0>> }

\* the frame of a payload
Frame(payload) == put_u32(Len(payload)) \o payload

RECURSIVE FrameSeqs(_)
\* the concatenations of exactly n frames
FrameSeqs(n) ==
    IF n = 0 THEN { <<>> }
    ELSE { Frame(p) \o rest : <<p, rest>> \in RawPayloads \X FrameSeqs(n - 1) }

\* what a peer sends before it closes the connection: up to MaxFrames
\* frames, cut anywhere
Streams ==
    UNION { { SubSeq(fs, 1, n) : n \in 0..Len(fs) } :
              fs \in UNION { FrameSeqs(k) : k \in 1..MaxFrames } }

InitReceive ==
    /\ stream \in Streams
    /\ consumed = 0 /\ received = <<>>
    /\ message = None /\ send_out = None /\ decoded = None
    /\ LayIdle
    /\ HsIdle
    /\ ConnIdle
    /\ VpIdle
    /\ FnIdle

\* one call of receive_message
ReceiveMessage ==
    /\ pc = "Idle"
    /\ message = None
    /\ \/ received = <<>>
       \/ /\ received # <<>>
          /\ received[Len(received)].status # "panic"
          /\ ~ ( /\ received[Len(received)].status = "err"
                 /\ received[Len(received)].kind = "UnexpectedEof" )
    /\ LET r == receive_message_from(stream, consumed)
       IN  /\ received' = Append(received, r)
           /\ consumed' = r.consumed
    /\ UNCHANGED <<message, send_out, decoded, stream>>
    /\ UNCHANGED <<layout_vars, hs_vars, conn_vars, vp_vars,
                   fn_vars>>

NextReceive == ReceiveMessage

SpecReceive == InitReceive /\ [][NextReceive]_vars

\* where the k-th call of receive_message started reading
CallStart(k) == IF k = 1 THEN 0 ELSE received[k - 1].consumed

\* the length the 4 bytes after position from declare, -1 when the stream
\* ends before them
DeclaredLength(from) ==
    IF Len(stream) - from < 4 THEN -1
    ELSE stream[from + 1] * 2^24 + stream[from + 2] * 2^16
             + stream[from + 3] * 2^8 + stream[from + 4]

\* the stream holds the whole frame that starts at position from
FrameComplete(from) ==
    DeclaredLength(from) >= 0 /\ Len(stream) - from >= 4 + DeclaredLength(from)

\* C13: receive_message consumes exactly 4 + L bytes for a frame of declared
\* length L and parses only those L bytes; if the stream ends before 4 + L
\* bytes are available it returns a failure, never a message built from a
\* partial payload
C13_ExactRead ==
    \A k \in 1..Len(received) :
        LET from == CallStart(k)
            L == DeclaredLength(from)
            r == received[k]
        IN  /\ FrameComplete(from) => r.consumed = from + 4 + L
            /\ ~FrameComplete(from) => r.status = "err"
            /\ r.status = "ok" =>
                   /\ FrameComplete(from)
                   /\ PeerMessage_try_from(SubSeq(stream, from + 5, from + 4 + L))
                          = [status |-> "ok", msg |-> r.msg]

\* a second frame was cut in its payload: the second call failed
C13_Witness ==
    /\ Len(received) = 2
    /\ received[1].status = "ok"
    /\ received[2].status = "err"
    /\ DeclaredLength(received[1].consumed) >= 2
    /\ Len(stream) >= received[1].consumed + 5
    /\ ~FrameComplete(received[1].consumed)

\* C14: for a frame whose type code is none of 0..8, receive_message returns
\* an unknown-message-type error after having consumed the whole frame, and
\* the next call decodes the frame that follows it
C14_UnknownConsumed ==
    \A k \in 1..Len(received) :
        LET from == CallStart(k)
            L == DeclaredLength(from)
            next == from + 4 + L
        IN  ( /\ FrameComplete(from) /\ L >= 1
              /\ stream[from + 5] \notin 0..8 )
            => /\ received[k].status = "err"
               /\ received[k].kind = "UnknownCode"
               /\ received[k].consumed = next
               /\ \A m \in ReceiveMessages :
                    ( /\ Len(received) > k
                      /\ IsPrefix(Frame(PeerMessage_into_bytes(m)),
                                  SubSeq(stream, next + 1, Len(stream))) )
                    => received[k + 1] =
                           [status |-> "ok", msg |-> m,
                            consumed |-> next + 4 + Len(PeerMessage_into_bytes(m))]

\* a frame of unknown type with a body was followed by a Piece, and both
\* were read
C14_Witness ==
    /\ Len(received) >= 2
    /\ received[1].status = "err"
    /\ received[1].kind = "UnknownCode"
    /\ received[1].consumed = 7
    /\ received[2].status = "ok"
    /\ received[2].msg.type = "Piece"

\* C28: for every frame a peer can send, receive_message returns either a
\* PeerMessage or an error value and never panics, a frame of declared
\* length 0 and a frame whose body is shorter than the fixed fields of its
\* variant included
C28_NeverPanics ==
    \A k \in 1..Len(received) : received[k].status \in {"ok", "err"}

(***************************************************************************)
(* peer.rs: validate_piece.  The digest is computed by the sha1 crate,     *)
(* which is not part of the sources: the model puts a 20-byte checksum in  *)
(* its place, a fixed function of the bytes of the data.                   *)
(***************************************************************************)
RECURSIVE Pow33(_)
\* 33^k modulo 256
Pow33(k) ==
    IF k = 0 THEN 1
    ELSE IF k % 2 = 1 THEN (33 * Pow33(k - 1)) % 256
    ELSE CHOOSE square \in { (h * h) % 256 : h \in {Pow33(k \div 2)} } : TRUE

RECURSIVE MixFold(_, _, _)
\* every byte d takes a checksum x to (33 * x + d + 1) % 256: what the
\* bytes data[lo..hi], one after the other, make of the checksum 0, put
\* together from the two halves of the range
MixFold(data, lo, hi) ==
    IF hi < lo THEN 0
    ELSE IF lo = hi THEN (data[lo] + 1) % 256
    ELSE (MixFold(data, lo, (lo + hi) \div 2) * Pow33(hi - (lo + hi) \div 2)
              + MixFold(data, (lo + hi) \div 2 + 1, hi)) % 256

\* Sha1::new(), update(piece), finalize(): byte i of the checksum is what
\* the bytes of data make of the checksum i (d is data, m what they make of
\* 0, each evaluated once)
Sha1(data) ==
    CHOOSE digest \in
        { [i \in 1..20 |-> (Pow33(Len(d)) * i + m) % 256] :
            <<d, m>> \in { <<x, MixFold(x, 1, Len(x))>> : x \in {data} } } :
        TRUE

\* a faulty variant of validate_piece: the digest of the first piece is
\* compared, whatever the index
validate_piece_FirstPiece(pieces, piece_index, data) ==
    IF piece_index >= Len(pieces) THEN [status |-> "panic"]
    ELSE IF pieces[1] # Sha1(data) THEN [status |-> "err"]
    ELSE [status |-> "ok"]

\* validate_piece(torrent, piece_index, piece), pieces being
\* torrent.info.pieces.0: "ok", "err" (the hashes don't match) or "panic"
\* (the index is out of bounds)
validate_piece(pieces, piece_index, data) ==
    IF piece_index >= Len(pieces) THEN [status |-> "panic"]
    ELSE LET slice_hash == pieces[piece_index + 1]
             current_hash == Sha1(data)
         IN  IF slice_hash # current_hash THEN [status |-> "err"]
             ELSE [status |-> "ok"]

(***************************************************************************)
(* SpecValidate: validate_piece on a metainfo of two pieces.               *)
(***************************************************************************)
\* the digests of the metainfo: those of the data of at most one byte, two
\* that differ from the digest of <<7>> in their first or their last byte
\* only, and 20 zero bytes
ValidateDigests ==
    { Sha1(d) : d \in { x \in ByteStrings : Len(x) <= 1 } }
    \cup { [Sha1(<<7>>) EXCEPT ![1] = (@ + 1) % 256],
           [Sha1(<<7>>) EXCEPT ![20] = (@ + 1) % 256],
           Zeros(20) }

ValidateInputs ==
    { [pieces |-> <<x[1], x[2]>>, piece_index |-> x[3], data |-> x[4]] :
        x \in ValidateDigests \X ValidateDigests \X (0..2) \X ByteStrings }

InitValidate ==
    /\ vp_args \in ValidateInputs
    /\ vp_result = None
    /\ FnIdle
    /\ LayIdle
    /\ HsIdle
    /\ ConnIdle
    /\ WireIdle

Validate ==
    /\ pc = "Idle"
    /\ vp_args # None
    /\ vp_result = None
    /\ vp_result' = validate_piece(vp_args.pieces, vp_args.piece_index,
                                   vp_args.data)
    /\ UNCHANGED <<vp_args, layout_vars, hs_vars, conn_vars, wire_vars,
                   fn_vars>>

NextValidate == Validate

SpecValidate == InitValidate /\ [][NextValidate]_vars

\* C16: for every piece index in range and every data buffer, validate_piece
\* returns ok if and only if the digest of data equals
\* metainfo.pieces[piece_index], a failure otherwise, and it modifies
\* neither the metainfo nor the data
C16_ValidateIff ==
    /\ [] ( (vp_result # None /\ vp_args.piece_index < Len(vp_args.pieces)) =>
              /\ vp_result.status \in {"ok", "err"}
              /\ vp_result.status = "ok" <=>
                     \A i \in 1..20 :
                         Sha1(vp_args.data)[i]
                             = vp_args.pieces[vp_args.piece_index + 1][i] )
    /\ [][vp_args' = vp_args]_vars

\* the second piece was validated against a metainfo whose first digest is
\* another one
C16_Witness ==
    /\ vp_result # None
    /\ vp_result.status = "ok"
    /\ vp_args.piece_index = 1
    /\ vp_args.data = <<7>>
    /\ vp_args.pieces[1] = [Sha1(<<7>>) EXCEPT ![20] = (@ + 1) % 256]

(***************************************************************************)
(* SpecLive: the connection of Spec with a peer that answers every Request *)
(* with the Piece asked for, on a transport that does not fail once        *)
(* download_piece is called.  The client is a sequential program that      *)
(* keeps running and the peer keeps answering: a step that is possible is  *)
(* eventually taken.                                                       *)
(***************************************************************************)
\* a piece of 2^24 + 1 bytes asked for in blocks of 16 KiB, in a build with
\* debug assertions (without them the piece buffer of that many bytes would
\* have to be held)
LargePieceInput ==
    [torrent |-> [piece_length |-> 2^F32Digits + 1, piece_count |-> 1,
                  content |-> [kind |-> "SingleFile",
                               length |-> 2^F32Digits + 1]],
     piece_index |-> 0, block_size |-> 2^14, debug |-> TRUE]

LiveInputs == SessionInputs \cup {LargePieceInput}

InitLive ==
    /\ args \in LiveInputs
    /\ layout = None
    /\ HsIdle
    /\ pc = "Connected"
    /\ rx = NoFrame /\ log = <<>> /\ piece = <<>> /\ blk = 0
    /\ init_result = "none" /\ dp_result = "none"
    /\ WireIdle
    /\ VpIdle
    /\ FnIdle

\* the Piece messages that match a Request in piece index, offset and length
MatchingReplies(req) ==
    { [type |-> "Piece", piece_index |-> req.piece_index,
       offset |-> req.offset, piece |-> [j \in 1..req.length |-> fill]] :
        fill \in FillBytes }

\* receive_message reads the length of the next frame; the frame that
\* answers a Request is a matching Piece
RecvMatching ==
    /\ RecvLength
    /\ pc = "dp_reply" => rx' \in MatchingReplies(CurrentRequest)

\* the transport fails under initiate_download only
RecvFailInit == RecvFail /\ pc # "dp_reply"

\* send_message(Request) succeeds
SendRequestDone == SendRequest /\ pc' = "dp_reply"

NextLive ==
    \/ SendHandshake
    \/ RecvHandshake
    \/ RecvMatching
    \/ RecvFailInit
    \/ InitBitfield
    \/ SendInterested
    \/ InitUnchoke
    \/ StartDownload
    \/ SendRequestDone
    \/ BlockReply
    \/ Close

SpecLive == InitLive /\ [][NextLive]_vars /\ WF_vars(NextLive)

\* the exact number of blocks of the piece asked for
ExactBlockCount ==
    LET t == args.torrent
        n == IF args.piece_index = t.piece_count - 1
             THEN content_length(t) - t.piece_length * (t.piece_count - 1)
             ELSE t.piece_length
    IN  (n + args.block_size - 1) \div args.block_size

\* C20: if the peer answers every Request with the matching Piece and the
\* transport does not fail, a download_piece that is called eventually
\* returns successfully, after exactly block_count request/response exchanges
C20_DownloadCompletes ==
    /\ CallerDownloads ~> ( /\ dp_result = "ok"
                            /\ Len(RequestsSent) = ExactBlockCount
                            /\ Len(Replies) = ExactBlockCount )
    /\ [] (dp_result \in {"none", "ok"})

(***************************************************************************)
(* tracker.rs: the compact peer list of a tracker response.  A u32 is kept *)
(* as its two 16-bit halves [hi, lo]; an Ipv4Addr is its four octets; a    *)
(* SocketAddrV4 is [ip, port].                                             *)
(***************************************************************************)
\* the number of records the peer lists of the model hold at most
MaxPeers == 2

\* u32::from_be_bytes, line 115
u32_from_be_bytes(b) == [hi |-> b[1] * 256 + b[2], lo |-> b[3] * 256 + b[4]]

\* Ipv4Addr::from(u32), line 115: the octets of the address, first the most
\* significant byte of the number
Ipv4Addr_from(n) == <<n.hi \div 256, n.hi % 256, n.lo \div 256, n.lo % 256>>

\* u16::from_be_bytes, line 116
u16_from_be_bytes(b) == b[1] * 256 + b[2]

\* u16::to_be_bytes, line 142
u16_to_be_bytes(n) == <<n \div 256, n % 256>>

\* SocketAddrV4::new, line 114
SocketAddrV4_new(ip, port) == [ip |-> ip, port |-> port]

\* a faulty variant of PeersVisitor_visit_bytes: the port is read least
\* significant byte first
PeersVisitor_visit_bytes_PortLe(v) ==
    IF Len(v) % 6 # 0 THEN [status |-> "err"]
    ELSE [status |-> "ok",
          peers |-> [k \in 1..(Len(v) \div 6) |->
              LET slice == SubSeq(v, 6 * (k - 1) + 1, 6 * k)
              IN  SocketAddrV4_new(
                      Ipv4Addr_from(u32_from_be_bytes(SubSeq(slice, 1, 4))),
                      u16_from_be_bytes(<<slice[6], slice[5]>>))]]

\* PeersVisitor::visit_bytes, lines 98-121
PeersVisitor_visit_bytes(v) ==
    IF Len(v) % 6 # 0 THEN [status |-> "err"]
    ELSE [status |-> "ok",
          peers |-> [k \in 1..(Len(v) \div 6) |->
              LET slice == SubSeq(v, 6 * (k - 1) + 1, 6 * k)
              IN  SocketAddrV4_new(
                      Ipv4Addr_from(u32_from_be_bytes(SubSeq(slice, 1, 4))),
                      u16_from_be_bytes(SubSeq(slice, 5, 6)))]]

RECURSIVE Peers_serialize(_)
\* Serialize for Peers, lines 133-147: the bytes given to serialize_bytes
Peers_serialize(peers) ==
    IF peers = <<>> THEN <<>>
    ELSE Head(peers).ip \o u16_to_be_bytes(Head(peers).port)
             \o Peers_serialize(Tail(peers))

(***************************************************************************)
(* SpecPeers: a peers byte string is parsed and the list serialized back.  *)
(***************************************************************************)
\* the addresses and ports of the records: 192.168.1.10, the lowest and the
\* highest address; 6881, 80, the highest port
PeerIps == { <<192, 168, 1, 10>>, <<0, 0, 0, 0>>, <<255, 255, 255, 255>> }

PeerPorts == { <<26, 225>>, <<0, 80>>, <<255, 255>> }

PeerRecords == { ip \o port : <<ip, port>> \in PeerIps \X PeerPorts }

RECURSIVE PeerBlobs(_)
\* the concatenations of exactly n records
PeerBlobs(n) ==
    IF n = 0 THEN { <<>> }
    ELSE { r \o rest : <<r, rest>> \in PeerRecords \X PeerBlobs(n - 1) }

\* the peers strings of the model: up to MaxPeers records, cut anywhere
PeerStrings ==
    UNION { { SubSeq(b, 1, n) : n \in 0..Len(b) } : b \in PeerBlobs(MaxPeers) }

InitPeers ==
    /\ fn_args \in { [fn |-> "Peers", v |-> v] : v \in PeerStrings }
    /\ fn_result = None
    /\ LayIdle
    /\ HsIdle
    /\ ConnIdle
    /\ WireIdle
    /\ VpIdle

\* Deserialize for Peers on a byte string
ParsePeers ==
    /\ pc = "Idle"
    /\ fn_args.fn = "Peers"
    /\ fn_result = None
    /\ fn_result' = [step |-> "parsed",
                     parsed |-> PeersVisitor_visit_bytes(fn_args.v)]
    /\ UNCHANGED <<fn_args, layout_vars, hs_vars, conn_vars, wire_vars,
                   vp_vars>>

\* Serialize for Peers on the list that was parsed
SerializePeers ==
    /\ pc = "Idle"
    /\ fn_args.fn = "Peers"
    /\ fn_result # None
    /\ fn_result.step = "parsed"
    /\ fn_result.parsed.status = "ok"
    /\ fn_result' = [step |-> "serialized",
                     parsed |-> fn_result.parsed,
                     bytes |-> Peers_serialize(fn_result.parsed.peers)]
    /\ UNCHANGED <<fn_args, layout_vars, hs_vars, conn_vars, wire_vars,
                   vp_vars>>

NextPeers == ParsePeers \/ SerializePeers

SpecPeers == InitPeers /\ [][NextPeers]_vars

\* C21: parsing a compact peer blob of length 6n yields exactly n peer
\* addresses in blob order, peer k having as IPv4 address bytes 6k..6k+3 and
\* as port bytes 6k+4..6k+5, both big-endian; parsing a blob whose length is
\* not a multiple of 6 fails; serializing the parsed list reproduces the blob
C21_PeersRoundTrip ==
    fn_result # None =>
        LET v == fn_args.v
            r == fn_result.parsed
        IN  /\ Len(v) % 6 # 0 => r.status = "err"
            /\ Len(v) % 6 = 0 =>
                 /\ r.status = "ok"
                 /\ Len(r.peers) = Len(v) \div 6
                 /\ \A k \in 0..(Len(v) \div 6 - 1) :
                      /\ r.peers[k + 1].ip = SubSeq(v, 6 * k + 1, 6 * k + 4)
                      /\ r.peers[k + 1].port
                             = v[6 * k + 5] * 256 + v[6 * k + 6]
            /\ fn_result.step = "serialized" => fn_result.bytes = v

\* two records were parsed, the second one 192.168.1.10:6881, and
\* serialized back
C21_Witness ==
    /\ fn_result # None
    /\ fn_result.step = "serialized"
    /\ Len(fn_args.v) = 12
    /\ fn_result.parsed.peers[2]
           = [ip |-> <<192, 168, 1, 10>>, port |-> 6881]
    /\ fn_result.parsed.peers[1].port = 80

(***************************************************************************)
(* Decoded bencode (serde_bencode::value::Value).  A value is              *)
(*   [t |-> "Int", n], [t |-> "Bytes", b], [t |-> "List", l] or            *)
(*   [t |-> "Dict", d]                                                     *)
(* with b a sequence of bytes, l a sequence of values and d a function     *)
(* from keys to values.  Where a dictionary is read into a struct, it is   *)
(* written as a record with one field per key the struct knows, and a key  *)
(* the dictionary does not hold has the value Absent.                      *)
(***************************************************************************)
BenInt(n) == [t |-> "Int", n |-> n]
BenBytes(b) == [t |-> "Bytes", b |-> b]
BenList(l) == [t |-> "List", l |-> l]
BenDict(d) == [t |-> "Dict", d |-> d]
Absent == [t |-> "Absent"]

(***************************************************************************)
(* torrent.rs: the deserialization of the info section, as serde derives   *)
(* it from the declarations.  Info takes the keys name, piece length and   *)
(* pieces; the flattened field content is deserialized from the keys that  *)
(* are left; Content is untagged, so its variants are tried in the order   *)
(* of their declaration and the first that deserializes is returned; a     *)
(* variant ignores the keys that are none of its fields.                   *)
(***************************************************************************)
\* usize from a decoded value: an integer that is not negative
usize_deserialize(x) ==
    IF x.t = "Int" /\ x.n >= 0 THEN [status |-> "ok", value |-> x.n]
    ELSE [status |-> "err"]

\* String from a decoded value; the byte strings of the model are ASCII
String_deserialize(x) ==
    IF x.t = "Bytes" THEN [status |-> "ok", value |-> x.b]
    ELSE [status |-> "err"]

\* PiecesVisitor::visit_bytes, lines 88-106, behind deserialize_bytes:
\* anything but a byte string is refused by the visitor's defaults
PiecesVisitor_visit_bytes(x) ==
    IF x.t # "Bytes" THEN [status |-> "err"]
    ELSE IF Len(x.b) % 20 # 0 THEN [status |-> "err"]
    ELSE [status |-> "ok",
          value |-> [k \in 1..(Len(x.b) \div 20) |->
                        SubSeq(x.b, 20 * (k - 1) + 1, 20 * k)]]

\* TorrentFile, lines 60-68: a dictionary with a length and a path, the
\* path a list of strings (an empty list is taken)
TorrentFile_deserialize(x) ==
    IF x.t # "Dict" THEN [status |-> "err"]
    ELSE IF usize_deserialize(x.d.length).status # "ok"
        THEN [status |-> "err"]
    ELSE IF x.d.path.t # "List" THEN [status |-> "err"]
    ELSE IF \E i \in 1..Len(x.d.path.l) :
                String_deserialize(x.d.path.l[i]).status # "ok"
        THEN [status |-> "err"]
    ELSE [status |-> "ok",
          value |-> [length |-> usize_deserialize(x.d.length).value,
                     path |-> [i \in 1..Len(x.d.path.l) |->
                         String_deserialize(x.d.path.l[i]).value]]]

\* Content::SingleFile { length }, line 53
Content_SingleFile(d) ==
    IF usize_deserialize(d.length).status # "ok" THEN [status |-> "err"]
    ELSE [status |-> "ok",
          value |-> [kind |-> "SingleFile",
                     length |-> usize_deserialize(d.length).value]]

\* Content::MultiFile { files }, line 57; files holds the lengths of the
\* files and paths their paths, in the order of the list
Content_MultiFile(d) ==
    IF d.files.t # "List" THEN [status |-> "err"]
    ELSE IF \E i \in 1..Len(d.files.l) :
                TorrentFile_deserialize(d.files.l[i]).status # "ok"
        THEN [status |-> "err"]
    ELSE [status |-> "ok",
          value |-> [kind |-> "MultiFile",
                     files |-> [i \in 1..Len(d.files.l) |->
                         TorrentFile_deserialize(d.files.l[i]).value.length],
                     paths |-> [i \in 1..Len(d.files.l) |->
                         TorrentFile_deserialize(d.files.l[i]).value.path]]]

\* #[serde(untagged)] enum Content, lines 49-58
Content_deserialize(d) ==
    IF Content_SingleFile(d).status = "ok" THEN Content_SingleFile(d)
    ELSE IF Content_MultiFile(d).status = "ok" THEN Content_MultiFile(d)
    ELSE [status |-> "err"]

\* Info, lines 24-47.  The result is [status |-> "ok", info] with info a
\* torrent as calculate_block_length reads it, or [status |-> "err"].
Info_deserialize(d) ==
    IF String_deserialize(d.name).status # "ok" THEN [status |-> "err"]
    ELSE IF usize_deserialize(d.piece_length).status # "ok"
        THEN [status |-> "err"]
    ELSE IF PiecesVisitor_visit_bytes(d.pieces).status # "ok"
        THEN [status |-> "err"]
    ELSE IF Content_deserialize(d).status # "ok" THEN [status |-> "err"]
    ELSE [status |-> "ok",
          info |-> [name |-> String_deserialize(d.name).value,
                    piece_length |-> usize_deserialize(d.piece_length).value,
                    pieces |-> PiecesVisitor_visit_bytes(d.pieces).value,
                    piece_count |->
                        Len(PiecesVisitor_visit_bytes(d.pieces).value),
                    content |-> Content_deserialize(d).value]]

(***************************************************************************)
(* SpecMetainfo: an info dictionary is deserialized.                       *)
(***************************************************************************)
\* the digests a pieces string holds at most
MaxDigests == 2

\* the files a files list holds at most
MaxFiles == 2

\* the highest length of a file
MaxLength == 5

\* a byte string of n bytes
FillerBytes(n) == [i \in 1..n |-> (7 * i) % 256]

\* what the key name holds
NameValues == { Absent, BenBytes(<<97>>) }

\* what the key piece length holds: a size, a negative number, a string
PieceLengthValues ==
    { BenInt(n) : n \in -1..MaxPieceLen } \cup { Absent, BenBytes(<<52>>) }

\* what the key pieces holds: whole digests, a string one byte short, a number
PiecesValues ==
    { BenBytes(FillerBytes(20 * k)) : k \in 0..MaxDigests }
    \cup { BenBytes(FillerBytes(20 * k - 1)) : k \in 1..MaxDigests }
    \cup { Absent, BenInt(20) }

\* what the key length holds
LengthValues ==
    { BenInt(n) : n \in -1..MaxLength } \cup { Absent, BenBytes(<<51>>) }

\* the entries of a files list: a file of one byte, one of MaxLength bytes
\* with an empty path, a dictionary without a length
FileValues ==
    { BenDict([length |-> BenInt(1),
               path |-> BenList(<<BenBytes(<<97>>)>>)]),
      BenDict([length |-> BenInt(MaxLength), path |-> BenList(<<>>)]),
      BenDict([length |-> Absent, path |-> BenList(<<BenBytes(<<97>>)>>)]) }

\* what the key files holds
FilesValues ==
    { BenList(l) : l \in UNION { [1..k -> FileValues] : k \in 0..MaxFiles } }
    \cup { Absent, BenInt(1) }

InfoDicts ==
    { [name |-> x[1], piece_length |-> x[2], pieces |-> x[3],
       length |-> x[4], files |-> x[5]] :
        x \in NameValues \X PieceLengthValues \X PiecesValues
                  \X LengthValues \X FilesValues }

InitMetainfo ==
    /\ fn_args \in { [fn |-> "Info", d |-> d] : d \in InfoDicts }
    /\ fn_result = None
    /\ LayIdle
    /\ HsIdle
    /\ ConnIdle
    /\ WireIdle
    /\ VpIdle

\* Deserialize for Info
ParseInfo ==
    /\ pc = "Idle"
    /\ fn_args.fn = "Info"
    /\ fn_result = None
    /\ fn_result' = Info_deserialize(fn_args.d)
    /\ UNCHANGED <<fn_args, layout_vars, hs_vars, conn_vars, wire_vars,
                   vp_vars>>

NextMetainfo == ParseInfo

SpecMetainfo == InitMetainfo /\ [][NextMetainfo]_vars

\* the info dictionary holds the key
HasLength == fn_args.d.length # Absent
HasFiles == fn_args.d.files # Absent

\* C22: parsing a metainfo fails when its info section contains both a
\* length key and a files key, and fails when it contains neither; it
\* succeeds as SingleFile only when length alone is present and as MultiFile
\* only when files alone is present
C22_LengthXorFiles ==
    fn_result # None =>
        /\ (HasLength /\ HasFiles) => fn_result.status = "err"
        /\ (~HasLength /\ ~HasFiles) => fn_result.status = "err"
        /\ ( /\ fn_result.status = "ok"
             /\ fn_result.info.content.kind = "SingleFile" )
           => (HasLength /\ ~HasFiles)
        /\ ( /\ fn_result.status = "ok"
             /\ fn_result.info.content.kind = "MultiFile" )
           => (HasFiles /\ ~HasLength)

\* the ceiling of a / b for a >= 0 and b > 0
CeilDiv(a, b) == (a + b - 1) \div b

\* C23: every metainfo accepted by parsing has piece_count =
\* ceil(total_length / piece_length), piece_count the number of 20-byte
\* digests in pieces and total_length the sum of the file lengths; hence
\* the length of its last piece is between 1 and piece_length
C23_PieceCountMatches ==
    (fn_result # None /\ fn_result.status = "ok") =>
        LET info == fn_result.info
            total_length == content_length(info)
            last == total_length - info.piece_length * (info.piece_count - 1)
        IN  /\ info.piece_length > 0
            /\ info.piece_count = CeilDiv(total_length, info.piece_length)
            /\ 1 <= last /\ last <= info.piece_length

(***************************************************************************)
(* tracker.rs: TrackerRequest and its builder calls.  A request is         *)
(*   [peer_id, port, uploaded, downloaded, left, compact]                  *)
(* the peer_id being the bytes of the string.                              *)
(***************************************************************************)
\* TrackerRequest::new, lines 39-48; the peer_id "00112233445566778899"
TrackerRequest_new(left) ==
    [left |-> left, peer_id |-> DefaultPeerId, port |-> 6881,
     uploaded |-> 0, downloaded |-> 0, compact |-> 1]

\* TrackerRequest::left, lines 50-52
TrackerRequest_left(self, left) == [self EXCEPT !.left = left]

\* a faulty variant of TrackerRequest_downloaded: the number is stored in
\* the field left
TrackerRequest_downloaded_IntoLeft(self, downloaded) ==
    [self EXCEPT !.left = downloaded]

\* TrackerRequest::downloaded, lines 54-56
TrackerRequest_downloaded(self, downloaded) ==
    [self EXCEPT !.downloaded = downloaded]

\* TrackerRequest::uploaded, lines 58-60
TrackerRequest_uploaded(self, uploaded) == [self EXCEPT !.uploaded = uploaded]

(***************************************************************************)
(* SpecTracker: a request is made with new(content_length) for a torrent   *)
(* of some content length, and up to MaxCalls builder calls follow, with   *)
(* any arguments.  fn_result is [req, call, arg, calls]: the request, the  *)
(* name and the argument of the last call, the number of builder calls.    *)
(***************************************************************************)
\* the builder calls made on one request at most
MaxCalls == 3

\* the content lengths and the arguments of the builder calls
TrackerSizes == 0..MaxLength

InitTracker ==
    /\ fn_args \in { [fn |-> "TrackerRequest", content_length |-> n] :
                       n \in TrackerSizes }
    /\ fn_result = None
    /\ LayIdle
    /\ HsIdle
    /\ ConnIdle
    /\ WireIdle
    /\ VpIdle

NewRequest ==
    /\ pc = "Idle"
    /\ fn_args.fn = "TrackerRequest"
    /\ fn_result = None
    /\ fn_result' = [req |-> TrackerRequest_new(fn_args.content_length),
                     call |-> "new", arg |-> fn_args.content_length,
                     calls |-> 0]
    /\ UNCHANGED <<fn_args, layout_vars, hs_vars, conn_vars, wire_vars,
                   vp_vars>>

\* the guard of a builder call
BuilderCall ==
    /\ pc = "Idle"
    /\ fn_args.fn = "TrackerRequest"
    /\ fn_result # None
    /\ fn_result.calls < MaxCalls

SetLeft ==
    /\ BuilderCall
    /\ \E n \in TrackerSizes :
         fn_result' = [req |-> TrackerRequest_left(fn_result.req, n),
                       call |-> "left", arg |-> n,
                       calls |-> fn_result.calls + 1]
    /\ UNCHANGED <<fn_args, layout_vars, hs_vars, conn_vars, wire_vars,
                   vp_vars>>

SetDownloaded ==
    /\ BuilderCall
    /\ \E n \in TrackerSizes :
         fn_result' = [req |-> TrackerRequest_downloaded(fn_result.req, n),
                       call |-> "downloaded", arg |-> n,
                       calls |-> fn_result.calls + 1]
    /\ UNCHANGED <<fn_args, layout_vars, hs_vars, conn_vars, wire_vars,
                   vp_vars>>

SetUploaded ==
    /\ BuilderCall
    /\ \E n \in TrackerSizes :
         fn_result' = [req |-> TrackerRequest_uploaded(fn_result.req, n),
                       call |-> "uploaded", arg |-> n,
                       calls |-> fn_result.calls + 1]
    /\ UNCHANGED <<fn_args, layout_vars, hs_vars, conn_vars, wire_vars,
                   vp_vars>>

NextTracker == NewRequest \/ SetLeft \/ SetDownloaded \/ SetUploaded

SpecTracker == InitTracker /\ [][NextTracker]_vars

\* C24 as stated: every tracker request for a torrent, built by
\* TrackerRequest::new followed by any sequence of the builder calls left(),
\* downloaded() and uploaded(), has left == content_length - downloaded and
\* compact == 1
C24_LeftIsRemainder ==
    fn_result # None =>
        /\ fn_result.req.left
               = fn_args.content_length - fn_result.req.downloaded
        /\ fn_result.req.compact = 1

\* C24, amended: every such request has compact == 1 and the peer_id and
\* port new() gave it; a builder call stores its argument in its own field
\* and leaves the other fields as they were, so left is the argument of the
\* latest new() or left() call and downloaded that of the latest
\* downloaded() call, 0 when there was none; left == content_length -
\* downloaded holds for new(content_length) itself
C24_BuilderSetsOwnField ==
    /\ [] ( fn_result # None =>
              /\ fn_result.req.compact = 1
              /\ fn_result.req.peer_id = DefaultPeerId
              /\ fn_result.req.port = 6881
              /\ fn_result.call = "new" =>
                   /\ fn_result.req.left = fn_args.content_length
                   /\ fn_result.req.downloaded = 0
                   /\ fn_result.req.uploaded = 0
              /\ fn_result.call = "left" =>
                   fn_result.req.left = fn_result.arg
              /\ fn_result.call = "downloaded" =>
                   fn_result.req.downloaded = fn_result.arg
              /\ fn_result.call = "uploaded" =>
                   fn_result.req.uploaded = fn_result.arg )
    /\ [][ fn_result # None =>
             /\ fn_result'.call # "left" =>
                  fn_result'.req.left = fn_result.req.left
             /\ fn_result'.call # "downloaded" =>
                  fn_result'.req.downloaded = fn_result.req.downloaded
             /\ fn_result'.call # "uploaded" =>
                  fn_result'.req.uploaded = fn_result.req.uploaded ]_vars

\* downloaded(2) was called on the request of a torrent of 5 bytes and left
\* is still 5
C24_Witness ==
    /\ fn_result # None
    /\ fn_args.content_length = 5
    /\ fn_result.call = "downloaded"
    /\ fn_result.req.downloaded = 2
    /\ fn_result.req.left = 5
    /\ fn_result.calls = 1

(***************************************************************************)
(* main.rs: url_encode_infohash.  A String is the sequence of the codes of *)
(* its characters.                                                         *)
(***************************************************************************)
\* the bytes the function emits as they are: 0-9, A-Z, a-z, - _ . ~
Unreserved == (48..57) \cup (65..90) \cup (97..122) \cup {45, 95, 46, 126}

\* the character of a hexadecimal digit, in lower case
LowerHexDigit(d) == IF d < 10 THEN 48 + d ELSE 87 + d

\* a faulty variant of url_encode_byte: the hexadecimal number is not padded
\* to two digits
url_encode_byte_Unpadded(byte) ==
    IF byte \in Unreserved THEN <<byte>>
    ELSE IF byte < 16 THEN <<37, LowerHexDigit(byte)>>
    ELSE <<37, LowerHexDigit(byte \div 16), LowerHexDigit(byte % 16)>>

\* lines 51-64, the closure mapped over the bytes: format!("{}", byte as
\* char) or format!("%{byte:02x?}")
url_encode_byte(byte) ==
    IF byte \in Unreserved THEN <<byte>>
    ELSE <<37, LowerHexDigit(byte \div 16), LowerHexDigit(byte % 16)>>

RECURSIVE url_encode_infohash(_)
\* lines 48-66: the strings of the bytes, collected in order
url_encode_infohash(bytes) ==
    IF bytes = <<>> THEN <<>>
    ELSE url_encode_byte(Head(bytes)) \o url_encode_infohash(Tail(bytes))

(***************************************************************************)
(* SpecUrlEncode: url_encode_infohash is applied to a byte string.         *)
(***************************************************************************)
\* the bytes the longer strings of the model hold at most
MaxUrlBytes == 2

\* bytes at the borders of the classes of the function
UrlByteSamples ==
    {0, 10, 16, 37, 45, 46, 47, 48, 57, 58, 64, 65, 90, 91, 95, 96, 97, 122,
     123, 126, 127, 128, 171, 255}

\* every single byte, and the strings of up to MaxUrlBytes sample bytes
UrlInputs ==
    { <<b>> : b \in 0..255 }
    \cup UNION { [1..k -> UrlByteSamples] : k \in 0..MaxUrlBytes }

InitUrlEncode ==
    /\ fn_args \in { [fn |-> "url_encode_infohash", bytes |-> b] :
                       b \in UrlInputs }
    /\ fn_result = None
    /\ LayIdle
    /\ HsIdle
    /\ ConnIdle
    /\ WireIdle
    /\ VpIdle

UrlEncode ==
    /\ pc = "Idle"
    /\ fn_args.fn = "url_encode_infohash"
    /\ fn_result = None
    /\ fn_result' = [status |-> "ok",
                     string |-> url_encode_infohash(fn_args.bytes)]
    /\ UNCHANGED <<fn_args, layout_vars, hs_vars, conn_vars, wire_vars,
                   vp_vars>>

NextUrlEncode == UrlEncode

SpecUrlEncode == InitUrlEncode /\ [][NextUrlEncode]_vars

\* the value of a lower-case hexadecimal digit, -1 for any other character
LowerHexValue(c) ==
    IF c \in 48..57 THEN c - 48
    ELSE IF c \in 97..102 THEN c - 87
    ELSE -1

RECURSIVE PercentDecode(_)
\* the bytes a percent-encoded string stands for; <<-1>> is appended where a
\* % is not followed by two lower-case hexadecimal digits
PercentDecode(s) ==
    IF s = <<>> THEN <<>>
    ELSE IF Head(s) # 37 THEN <<Head(s)>> \o PercentDecode(Tail(s))
    ELSE IF Len(s) < 3 \/ LowerHexValue(s[2]) < 0 \/ LowerHexValue(s[3]) < 0
        THEN <<-1>>
    ELSE <<16 * LowerHexValue(s[2]) + LowerHexValue(s[3])>>
             \o PercentDecode(SubSeq(s, 4, Len(s)))

\* where the characters of byte i start in the output: after one character
\* for every unreserved byte before it, three for every other
RECURSIVE UrlOffset(_, _)
UrlOffset(bytes, i) ==
    IF i = 1 THEN 0
    ELSE UrlOffset(bytes, i - 1)
             + (IF bytes[i - 1] \in Unreserved THEN 1 ELSE 3)

\* C25: url_encode_infohash maps each input byte independently and in
\* order: a byte in 0-9, A-Z, a-z, '-', '_', '.', '~' is emitted unchanged
\* as one character, every other byte b as '%' followed by exactly two
\* lowercase hexadecimal digits of b; the output decodes back to the
\* original bytes
C25_UrlEncode ==
    fn_result # None =>
        LET bytes == fn_args.bytes
            out == fn_result.string
        IN  /\ Len(out) = UrlOffset(bytes, Len(bytes) + 1)
            /\ \A i \in 1..Len(bytes) :
                 LET at == UrlOffset(bytes, i)
                     b == bytes[i]
                 IN  IF b \in (48..57) \cup (65..90) \cup (97..122)
                               \cup {45, 95, 46, 126}
                     THEN out[at + 1] = b
                     ELSE /\ out[at + 1] = 37
                          /\ LowerHexValue(out[at + 2]) = b \div 16
                          /\ LowerHexValue(out[at + 3]) = b % 16
            /\ PercentDecode(out) = bytes

\* a byte below 16 that is escaped, followed by an unreserved byte
C25_Witness ==
    /\ fn_result # None
    /\ fn_args.bytes = <<10, 126>>
    /\ fn_result.string = <<37, 48, 97, 126>>

(***************************************************************************)
(* main.rs: the metainfo and its content identifier.  main.rs declares     *)
(* Torrent, Info, Content, TorrentFile and Pieces as torrent.rs does; the  *)
(* dictionary of a metainfo is the sequence of its entries [key, value] in *)
(* the order of the file.  serde_bencode::to_bytes writes the entries of a *)
(* dictionary sorted by key; an Info value is written as one dictionary    *)
(* (content is flattened into it).                                         *)
(***************************************************************************)
\* the entry of a dictionary a struct takes for one of its fields: the
\* entry must be there once
StructField(entries, key) ==
    LET at == { i \in 1..Len(entries) : entries[i].key = key }
    IN  IF Cardinality(at) # 1 THEN Absent
        ELSE entries[CHOOSE i \in at : TRUE].value

\* Torrent, lines 68-75: the fields announce and info; other keys are
\* ignored
Torrent_deserialize(entries) ==
    LET announce == StructField(entries, "announce")
        info == StructField(entries, "info")
        parsed == Info_deserialize(info.d)
    IN  IF String_deserialize(announce).status # "ok"
            THEN [status |-> "err"]
        ELSE IF info.t # "Dict" THEN [status |-> "err"]
        ELSE IF parsed.status # "ok" THEN [status |-> "err"]
        ELSE [status |-> "ok",
              torrent |-> [announce |-> String_deserialize(announce).value,
                           info |-> parsed.info]]

RECURSIVE Digits(_)
\* a number that is not negative, in base ten
Digits(n) ==
    IF n < 10 THEN <<48 + n>> ELSE Digits(n \div 10) \o <<48 + (n % 10)>>

RECURSIVE Concat(_)
\* the concatenation of a sequence of sequences
Concat(ss) == IF ss = <<>> THEN <<>> ELSE Head(ss) \o Concat(Tail(ss))

\* to_bytes of an integer: i, the digits, e
to_bytes_int(n) == <<105>> \o Digits(n) \o <<101>>

\* to_bytes of a byte string: the length, a colon, the bytes
to_bytes_bytes(b) == Digits(Len(b)) \o <<58>> \o b

\* the keys of the dictionaries written: files, length, name, path,
\* piece length, pieces
KeyFiles == <<102, 105, 108, 101, 115>>
KeyLength == <<108, 101, 110, 103, 116, 104>>
KeyName == <<110, 97, 109, 101>>
KeyPath == <<112, 97, 116, 104>>
KeyPieceLength == <<112, 105, 101, 99, 101, 32, 108, 101, 110, 103, 116, 104>>
KeyPieces == <<112, 105, 101, 99, 101, 115>>

\* TorrentFile, lines 123-131: d, length, path, e
TorrentFile_to_bytes(length, path) ==
    <<100>> \o to_bytes_bytes(KeyLength) \o to_bytes_int(length)
        \o to_bytes_bytes(KeyPath) \o <<108>>
        \o Concat([i \in 1..Len(path) |-> to_bytes_bytes(path[i])])
        \o <<101>> \o <<101>>

\* Content, lines 112-121: the entry it adds to the dictionary of Info
Content_to_bytes(content) ==
    IF content.kind = "SingleFile"
    THEN to_bytes_bytes(KeyLength) \o to_bytes_int(content.length)
    ELSE to_bytes_bytes(KeyFiles) \o <<108>>
             \o Concat([i \in 1..Len(content.files) |->
                   TorrentFile_to_bytes(content.files[i], content.paths[i])])
             \o <<101>>

\* serde_bencode::to_bytes(&torrent.info), lines 159-160, with Info, lines
\* 87-110, and Serialize for Pieces, lines 334-342: the keys come out as
\* files or length, name, piece length, pieces
Info_to_bytes(info) ==
    <<100>> \o Content_to_bytes(info.content)
        \o to_bytes_bytes(KeyName) \o to_bytes_bytes(info.name)
        \o to_bytes_bytes(KeyPieceLength) \o to_bytes_int(info.piece_length)
        \o to_bytes_bytes(KeyPieces) \o to_bytes_bytes(Concat(info.pieces))
        \o <<101>>

\* a faulty variant of calculate_info_hash: the tracker URL is hashed along
\* with the info section
calculate_info_hash_WithAnnounce(torrent) ==
    LET info_bytes == to_bytes_bytes(torrent.announce)
                          \o Info_to_bytes(torrent.info)
    IN  Sha1(info_bytes)

\* calculate_info_hash, lines 158-164
calculate_info_hash(torrent) ==
    LET info_bytes == Info_to_bytes(torrent.info) IN Sha1(info_bytes)

(***************************************************************************)
(* SpecInfoHash: two metainfo files are read, each is deserialized and its *)
(* content identifier calculated (the command info, lines 208-212 and      *)
(* 171).  fn_args is [first, second], fn_result is [first, second] with    *)
(* the outcome for each file, None before the file is read.                *)
(***************************************************************************)
\* the tracker URLs: "ta", "tb"
HashAnnounces == { BenBytes(<<116, 97>>), BenBytes(<<116, 98>>) }

\* the info sections: one file of 3 bytes, one file of 5 bytes in two
\* pieces, two files, and a section without a name
HashInfos ==
    { [name |-> BenBytes(<<97>>), piece_length |-> BenInt(4),
       pieces |-> BenBytes(FillerBytes(20)), length |-> BenInt(3),
       files |-> Absent],
      [name |-> BenBytes(<<97>>), piece_length |-> BenInt(4),
       pieces |-> BenBytes(FillerBytes(40)), length |-> BenInt(5),
       files |-> Absent],
      [name |-> BenBytes(<<97>>), piece_length |-> BenInt(12),
       pieces |-> BenBytes(FillerBytes(20)), length |-> Absent,
       files |-> BenList(<<
           BenDict([length |-> BenInt(1),
                    path |-> BenList(<<BenBytes(<<97>>)>>)]),
           BenDict([length |-> BenInt(10),
                    path |-> BenList(<<BenBytes(<<98>>),
                                       BenBytes(<<99>>)>>)]) >>)],
      [name |-> Absent, piece_length |-> BenInt(4),
       pieces |-> BenBytes(FillerBytes(20)), length |-> BenInt(3),
       files |-> Absent] }

\* the sequences that hold every element of a set once
Orders(S) ==
    { s \in [1..Cardinality(S) -> S] : \A x \in S : \E i \in DOMAIN s : s[i] = x }

\* the dictionaries of the metainfo files: announce and info, with or
\* without a comment, in any order; or info alone
HashMetainfos ==
    UNION { LET a == [key |-> "announce", value |-> x[1]]
                i == [key |-> "info", value |-> BenDict(x[2])]
                c == [key |-> "comment", value |-> BenBytes(<<99>>)]
            IN  Orders({a, i, c}) \cup Orders({a, i}) \cup Orders({i}) :
            x \in HashAnnounces \X HashInfos }

InitInfoHash ==
    /\ fn_args \in { [fn |-> "calculate_info_hash", first |-> x[1],
                      second |-> x[2]] :
                       x \in HashMetainfos \X HashMetainfos }
    /\ fn_result = [first |-> None, second |-> None]
    /\ LayIdle
    /\ HsIdle
    /\ ConnIdle
    /\ WireIdle
    /\ VpIdle

\* the command info on one file: the identifier of the torrent it holds
InfoCommand(entries) ==
    LET parsed == Torrent_deserialize(entries)
    IN  IF parsed.status # "ok" THEN [status |-> "err"]
        ELSE [status |-> "ok",
              info_hash |-> calculate_info_hash(parsed.torrent)]

HashFirst ==
    /\ pc = "Idle"
    /\ fn_args.fn = "calculate_info_hash"
    /\ fn_result.first = None
    /\ fn_result' = [fn_result EXCEPT !.first = InfoCommand(fn_args.first)]
    /\ UNCHANGED <<fn_args, layout_vars, hs_vars, conn_vars, wire_vars,
                   vp_vars>>

HashSecond ==
    /\ pc = "Idle"
    /\ fn_args.fn = "calculate_info_hash"
    /\ fn_result.second = None
    /\ fn_result' = [fn_result EXCEPT !.second = InfoCommand(fn_args.second)]
    /\ UNCHANGED <<fn_args, layout_vars, hs_vars, conn_vars, wire_vars,
                   vp_vars>>

NextInfoHash == HashFirst \/ HashSecond

SpecInfoHash == InitInfoHash /\ [][NextInfoHash]_vars

\* the info section of a metainfo dictionary
InfoSection(entries) ==
    entries[CHOOSE i \in 1..Len(entries) : entries[i].key = "info"].value

\* C26: the content identifier is a function of the info section alone:
\* computing it twice for the same metainfo gives the same 20 bytes, and two
\* metainfos with equal info sections but different values or ordering of
\* the keys outside info have the same identifier
C26_InfoHashOfInfoAlone ==
    ( /\ fn_result.first # None /\ fn_result.second # None
      /\ fn_result.first.status = "ok" /\ fn_result.second.status = "ok"
      /\ InfoSection(fn_args.first) = InfoSection(fn_args.second) )
    => /\ Len(fn_result.first.info_hash) = 20
       /\ fn_result.first.info_hash = fn_result.second.info_hash

\* two files with the same info section, another tracker URL and another
\* order of the keys, one of them with a comment: both were read
C26_Witness ==
    /\ fn_result.first # None /\ fn_result.second # None
    /\ fn_result.first.status = "ok" /\ fn_result.second.status = "ok"
    /\ InfoSection(fn_args.first) = InfoSection(fn_args.second)
    /\ Len(fn_args.first) = 3 /\ Len(fn_args.second) = 2
    /\ fn_args.first[1].key = "info" /\ fn_args.second[1].key = "announce"
    /\ StructField(fn_args.first, "announce")
           # StructField(fn_args.second, "announce")
    /\ InfoSection(fn_args.first).d.files # Absent

(***************************************************************************)
(* main.rs: bencode_to_json.  A dictionary (BenValue::Dict, a HashMap) is  *)
(* [t |-> "Dict", d] with d the set of its entries <<key, value>>, the     *)
(* keys distinct.  A JSON value is [t |-> "Number", n], [t |-> "String",   *)
(* s], [t |-> "Array", a] or [t |-> "Object", o] with s the sequence of    *)
(* the code points of the text, a a sequence of values and o the set of    *)
(* the entries <<key, value>>, the keys distinct.                          *)
(***************************************************************************)
JsonNumber(n) == [t |-> "Number", n |-> n]
JsonString(s) == [t |-> "String", s |-> s]
JsonArray(a) == [t |-> "Array", a |-> a]
JsonObject(o) == [t |-> "Object", o |-> o]

\* U+FFFD, the replacement character
Replacement == 65533

\* a continuation byte of UTF-8
IsContinuation(b) == b \in 128..191

\* the second byte a lead byte of a sequence of 3 or 4 bytes allows
SecondByteOk(b0, b1) ==
    IF b0 = 224 THEN b1 \in 160..191
    ELSE IF b0 = 237 THEN b1 \in 128..159
    ELSE IF b0 = 240 THEN b1 \in 144..191
    ELSE IF b0 = 244 THEN b1 \in 128..143
    ELSE IsContinuation(b1)

\* the first chunk of a byte string that is not empty: <<n, c>>, n the bytes
\* it takes and c the character it gives (a well-formed sequence gives its
\* code point, a longest ill-formed part gives U+FFFD)
Utf8Chunk(bytes) ==
    LET b0 == bytes[1]
        n == Len(bytes)
    IN  IF b0 < 128 THEN <<1, b0>>
        ELSE IF b0 \in 194..223
        THEN IF n >= 2 /\ IsContinuation(bytes[2])
             THEN <<2, (b0 - 192) * 64 + (bytes[2] - 128)>>
             ELSE <<1, Replacement>>
        ELSE IF b0 \in 224..239
        THEN IF n < 2 \/ ~SecondByteOk(b0, bytes[2]) THEN <<1, Replacement>>
             ELSE IF n < 3 \/ ~IsContinuation(bytes[3])
                 THEN <<2, Replacement>>
             ELSE <<3, (b0 - 224) * 4096 + (bytes[2] - 128) * 64
                           + (bytes[3] - 128)>>
        ELSE IF b0 \in 240..244
        THEN IF n < 2 \/ ~SecondByteOk(b0, bytes[2]) THEN <<1, Replacement>>
             ELSE IF n < 3 \/ ~IsContinuation(bytes[3])
                 THEN <<2, Replacement>>
             ELSE IF n < 4 \/ ~IsContinuation(bytes[4])
                 THEN <<3, Replacement>>
             ELSE <<4, (b0 - 240) * 262144 + (bytes[2] - 128) * 4096
                           + (bytes[3] - 128) * 64 + (bytes[4] - 128)>>
        ELSE <<1, Replacement>>

RECURSIVE from_utf8_lossy(_)
\* String::from_utf8_lossy, lines 25 and 38
from_utf8_lossy(bytes) ==
    IF bytes = <<>> THEN <<>>
    ELSE <<Utf8Chunk(bytes)[2]>>
             \o from_utf8_lossy(SubSeq(bytes, Utf8Chunk(bytes)[1] + 1,
                                       Len(bytes)))

RECURSIVE bencode_to_json(_)
\* bencode_to_json, lines 18-46: the set of the values it can return.  The
\* entries of a dictionary are inserted in the order the HashMap gives
\* them, which is any order, and an insert under a key the map holds
\* replaces the value: of the entries whose keys give the same text the
\* last one inserted stays.
bencode_to_json(bencode) ==
    IF bencode.t = "Bytes" THEN { JsonString(from_utf8_lossy(bencode.b)) }
    ELSE IF bencode.t = "Int" THEN { JsonNumber(bencode.n) }
    ELSE IF bencode.t = "List"
    THEN { JsonArray(arr) :
             arr \in { a \in [1..Len(bencode.l) ->
                                UNION { bencode_to_json(bencode.l[i]) :
                                          i \in 1..Len(bencode.l) }] :
                         \A i \in 1..Len(bencode.l) :
                             a[i] \in bencode_to_json(bencode.l[i]) } }
    ELSE LET keys == { from_utf8_lossy(e[1]) : e \in bencode.d }
             values(key) ==
                 UNION { bencode_to_json(e[2]) :
                           e \in { x \in bencode.d :
                                     from_utf8_lossy(x[1]) = key } }
         IN  { JsonObject({ <<key, map[key]>> : key \in keys }) :
                 map \in { m \in [keys -> UNION { values(key) : key \in keys }] :
                             \A key \in keys : m[key] \in values(key) } }

(***************************************************************************)
(* SpecJson: bencode_to_json is applied to a decoded value.                *)
(***************************************************************************)
\* the elements of a list and the entries of a dictionary, at most
MaxItems == 2

\* an integer, the strings "a", e-acute and one byte that is no UTF-8
JsonAtoms ==
    { BenInt(261), BenInt(-52), BenBytes(<<97>>), BenBytes(<<195, 169>>),
      BenBytes(<<255>>) }

\* the keys: "a", "b" and two bytes that are no UTF-8 (a key is a byte
\* string as any other)
JsonKeys == { <<97>>, <<98>>, <<255>>, <<254>> }

\* the lists of up to MaxItems values of S
ListsOf(S) == { BenList(l) : l \in UNION { [1..k -> S] : k \in 0..MaxItems } }

\* the dictionaries of up to MaxItems entries with keys of K and values of S
DictsOf(K, S) ==
    { BenDict({ <<k, f[k]>> : k \in ks }) :
        <<ks, f>> \in { x \in (SUBSET K) \X [K -> S] :
                          Cardinality(x[1]) <= MaxItems } }

\* the values of the model, each one a value decode_bencoded_value (lines
\* 14-16, any bytes) gives: atoms; lists and dictionaries of atoms; lists
\* of one such list or dictionary and dictionaries that hold one under the
\* key "a"
Containers ==
    ListsOf({BenInt(261), BenBytes(<<97>>), BenBytes(<<255>>)})
    \cup DictsOf(JsonKeys, {BenInt(261), BenBytes(<<97>>)})

JsonInputs ==
    JsonAtoms \cup Containers
    \cup { BenList(<<c>>) : c \in Containers }
    \cup { BenDict({ <<(<<97>>), c>> }) : c \in Containers }

InitJson ==
    /\ fn_args \in { [fn |-> "bencode_to_json", bencode |-> v] :
                       v \in JsonInputs }
    /\ fn_result = None
    /\ LayIdle
    /\ HsIdle
    /\ ConnIdle
    /\ WireIdle
    /\ VpIdle

ToJson ==
    /\ pc = "Idle"
    /\ fn_args.fn = "bencode_to_json"
    /\ fn_result = None
    /\ \E json \in bencode_to_json(fn_args.bencode) :
         fn_result' = [status |-> "ok", json |-> json]
    /\ UNCHANGED <<fn_args, layout_vars, hs_vars, conn_vars, wire_vars,
                   vp_vars>>

NextJson == ToJson

SpecJson == InitJson /\ [][NextJson]_vars

RECURSIVE MapsStructurally(_, _)
\* json is the structural image of bencode: the same number; the text of
\* the byte string (the same characters for ASCII bytes); an array of as
\* many elements, each the image of the element at its place; an object of
\* as many entries as the dictionary has keys, with for every key an entry
\* under the text of the key that holds the image of the key's value
MapsStructurally(bencode, json) ==
    IF bencode.t = "Int" THEN json = [t |-> "Number", n |-> bencode.n]
    ELSE IF bencode.t = "Bytes"
    THEN /\ json.t = "String"
         /\ (\A i \in 1..Len(bencode.b) : bencode.b[i] < 128)
                => json.s = bencode.b
    ELSE IF bencode.t = "List"
    THEN /\ json.t = "Array"
         /\ Len(json.a) = Len(bencode.l)
         /\ \A i \in 1..Len(bencode.l) :
                MapsStructurally(bencode.l[i], json.a[i])
    ELSE /\ json.t = "Object"
         /\ Cardinality(json.o) = Cardinality(bencode.d)
         /\ \A e \in bencode.d :
                \E o \in json.o :
                    /\ o[1] = from_utf8_lossy(e[1])
                    /\ MapsStructurally(e[2], o[2])

\* C27: bencode_to_json maps a decoded value structurally: an integer
\* becomes the same number, a byte-string becomes its text, a list of n
\* elements becomes an array of the n converted elements in the same order,
\* and a dict of k distinct keys becomes an object with k entries, one per
\* key, each holding the converted value of that key, at every nesting depth
C27_StructuralJson ==
    fn_result # None => MapsStructurally(fn_args.bencode, fn_result.json)

====
